---- MODULE Spec2Model ----
\* A model of the moloch pallet (pallets/moloch/src/lib.rs): the treasury
\* registry, the spend and membership proposal machines, the identifier
\* generators and the per-block poller, with the ledger, the org registry, the
\* vote service and the distribution service as collaborators.
EXTENDS Integers, Sequences, FiniteSets, TLC

\* ------------------------------------------------------------------ bounds
MaxBankId == 2
MaxProps == 2
MaxBlock == 4
MaxShares == 2

\* ------------------------------------------------------- program constants
MinDeposit == 2
SpendPollFrequency == 2
MemberPollFrequency == 3
ExistentialDeposit == 1

\* ------------------------------------------------------------- input sets
Alice == <<"alice">>
Bob == <<"bob">>
Users == {Alice, Bob}
Orgs == {1, 2}
None == <<"none">>
BankIds == 1..MaxBankId
SpendIds == 1..MaxProps
ProposalIds == 1..MaxProps
VoteIds == 1..MaxProps
Tributes == {1}
Controllers == {None, Alice}
Dests == {Bob}
Applicants == {Bob}
Deposits == {MinDeposit - 1, MinDeposit, MinDeposit + 1}
Amounts == {2}
ShareAmounts == {1, MaxShares}

VARIABLES
    BankIdNonce,        \* T::BankId
    SpendNonceMap,      \* BankId => SpendId
    ProposalNonceMap,   \* BankId => ProposalId
    TotalBankCount,     \* u32
    OrgBankRegistrar,   \* OrgId => Option<()>, as the set of its keys
    BankStores,         \* BankId => Option<BankState>
    SpendProps,         \* (BankId, SpendId) => Option<SpendProposal>
    MemberProps,        \* (BankId, ProposalId) => Option<MembershipProposal>
    balances,           \* the ledger: account => total balance
    members,            \* the org registry: org => set of member accounts
    shares,             \* the org registry: org => account => shares
    votes,              \* the vote service: vote id => outcome
    block,              \* frame_system block_number
    vote_requests,      \* what each vote was opened with, by vote id
    opened,             \* history: the treasury ids successful opens returned
    ret,                \* what the last call returned
    polled              \* the notifications of the last finalize hook's sweeps

storage == <<BankIdNonce, SpendNonceMap, ProposalNonceMap, TotalBankCount,
             OrgBankRegistrar, BankStores, SpendProps, MemberProps>>
collab == <<balances, members, shares, votes, vote_requests>>
vars == <<BankIdNonce, SpendNonceMap, ProposalNonceMap, TotalBankCount,
          OrgBankRegistrar, BankStores, SpendProps, MemberProps,
          balances, members, shares, votes, vote_requests, block, opened,
          ret, polled>>

\* the proposals stored, of both kinds
PropCount == Cardinality(DOMAIN SpendProps) + Cardinality(DOMAIN MemberProps)

\* ---------------------------------------------------------- storage maps
Put(f, k, v) == [x \in DOMAIN f \cup {k} |-> IF x = k THEN v ELSE f[x]]
Del(f, k) == [x \in DOMAIN f \ {k} |-> f[x]]
\* a value-query map returns the default (zero) for a key it does not hold
NonceGet(f, k) == IF k \in DOMAIN f THEN f[k] ELSE 0

RECURSIVE SumOver(_, _)
SumOver(f, S) ==
    IF S = {} THEN 0
    ELSE LET x == CHOOSE y \in S : TRUE IN f[x] + SumOver(f, S \ {x})

\* ------------------------------------------------------------- accounts
bank_account_id(id) == <<"bank", id>>
AllAccounts == Users \cup {bank_account_id(i) : i \in BankIds}
bank_balance(bal, bank) == bal[bank_account_id(bank)]
TotalFunds(bal) == SumOver(bal, DOMAIN bal)

\* ---------------------------------------------------- proposal states
WaitingForApproval == <<"WaitingForApproval">>
Voting(v) == <<"Voting", v>>
ApprovedAndExecuted == <<"ApprovedAndExecuted">>
ApprovedButNotExecuted == <<"ApprovedButNotExecuted">>
IsVoting(s) == s[1] = "Voting"
IsTerminal(s) == s \in {ApprovedAndExecuted, ApprovedButNotExecuted}

\* BankState::new, SpendProposal::new, MembershipProposal::new, set_state
NewBankState(id, org, controller) ==
    [id |-> id, org |-> org, controller |-> controller]
is_controller(bank, who) == bank.controller = who
NewSpendProposal(bank_id, spend_id, amount, dest) ==
    [amount |-> amount, dest |-> dest, state |-> WaitingForApproval]
NewMemberProposal(bank_id, id, tribute, shares_requested, applicant) ==
    [tribute |-> tribute, shares_requested |-> shares_requested,
     applicant |-> applicant, state |-> WaitingForApproval]
set_state(prop, s) == [prop EXCEPT !.state = s]

\* ------------------------------------------------------------ the ledger
\* Currency::transfer with ExistenceRequirement::KeepAlive
Transfer(bal, from, to, value) ==
    IF value = 0 \/ from = to THEN [ok |-> TRUE, bal |-> bal]
    ELSE IF bal[from] < value THEN [ok |-> FALSE, bal |-> bal]
    ELSE IF bal[to] + value < ExistentialDeposit THEN [ok |-> FALSE, bal |-> bal]
    ELSE IF bal[from] - value < ExistentialDeposit THEN [ok |-> FALSE, bal |-> bal]
    ELSE [ok |-> TRUE,
          bal |-> [bal EXCEPT ![from] = @ - value, ![to] = @ + value]]

\* ------------------------------------------------------ the org registry
is_member_of_group(mem, org, who) == who \in mem[org]
TotalIssuance(shs, org) == SumOver(shs[org], Users)
\* org::issue: mints shares for who in org and makes who a member
Issue(mem, shs, org, who, amount) ==
    IF TotalIssuance(shs, org) + amount > MaxShares
    THEN [ok |-> FALSE, mem |-> mem, shs |-> shs]
    ELSE [ok |-> TRUE,
          mem |-> [mem EXCEPT ![org] = @ \cup {who}],
          shs |-> [shs EXCEPT ![org][who] = @ + amount]]

\* the supervisor of each organization, as the org registry keeps it
OrgSupervisor == [o \in Orgs |-> IF o = 1 THEN Alice ELSE Bob]
is_organization_supervisor(org, who) == OrgSupervisor[org] = who

\* ------------------------------------------------ the distribution service
\* donate with OrgRep::Weighted(org): amount is split among the members of org
\* in proportion to their shares (rounded down); the remainder stays
DonateShare(shs, org, who, amount) ==
    (amount * shs[org][who]) \div TotalIssuance(shs, org)
RECURSIVE DonateTo(_, _, _, _, _, _)
DonateTo(bal, shs, from, org, amount, todo) ==
    IF todo = {} THEN bal
    ELSE LET who == CHOOSE y \in todo : TRUE
             part == DonateShare(shs, org, who, amount)
         IN DonateTo([bal EXCEPT ![from] = @ - part, ![who] = @ + part],
                     shs, from, org, amount, todo \ {who})
Donate(bal, mem, shs, from, org, amount) ==
    IF TotalIssuance(shs, org) = 0 THEN [ok |-> FALSE, bal |-> bal]
    ELSE [ok |-> TRUE, bal |-> DonateTo(bal, shs, from, org, amount, mem[org])]

\* ------------------------------------------------------ id generators
is_bank(banks, id) == id \in DOMAIN banks
is_spend(props, bank, spend) == <<bank, spend>> \in DOMAIN props
is_proposal(props, bank, proposal) == <<bank, proposal>> \in DOMAIN props

RECURSIVE Probe(_, _)
Probe(n, used) == IF n \in used THEN Probe(n + 1, used) ELSE n

generate_bank_uid_Reuse(nonce, banks) == Probe(1, DOMAIN banks)
generate_bank_uid(nonce, banks) == Probe(nonce + 1, DOMAIN banks)
generate_spend_uid_Nonce(nonces, props, seed) == NonceGet(nonces, seed)
generate_spend_uid(nonces, props, seed) ==
    Probe(NonceGet(nonces, seed) + 1, {k[2] : k \in {q \in DOMAIN props : q[1] = seed}})
generate_proposal_uid_Nonce(nonces, props, seed) == NonceGet(nonces, seed)
generate_proposal_uid(nonces, props, seed) ==
    Probe(NonceGet(nonces, seed) + 1, {k[2] : k \in {q \in DOMAIN props : q[1] = seed}})

\* `*count -= 1` on a u32: below zero the value is no count any more (the
\* build wraps or panics); -1 stands for that
U32Dec_Keep(c) == c
U32Dec(c) == c - 1

Ok == "Ok"
Result(op, args, res, val) == [op |-> op, args |-> args, res |-> res, val |-> val]
Idle == Result("idle", <<>>, Ok, 0)

\* ------------------------------------------------------ treasury registry
\* ensure!(deposit >= T::MinDeposit::get(), ...)
deposit_ok_Positive(deposit) == deposit > 0
deposit_ok(deposit) == deposit >= MinDeposit
\* <OrgBankRegistrar<T>>::get(org).is_some()
org_has_bank_Never(registrar, org) == FALSE
org_has_bank(registrar, org) == org \in registrar
\* <OrgBankRegistrar<T>>::insert(org, ())
registrar_insert_Forgotten(registrar, org) == registrar
registrar_insert(registrar, org) == registrar \cup {org}

\* OpenBankAccount::open_bank_account: the nonce is written by
\* generate_bank_uid before the fallible transfer
open_bank_account_Mints(nonce, banks, count, bal, opener, org, deposit, controller) ==
    IF ~deposit_ok(deposit)
    THEN [res |-> "CannotOpenBankAccountIfDepositIsBelowModuleMinimum", id |-> 0,
          nonce |-> nonce, banks |-> banks, count |-> count, bal |-> bal]
    ELSE LET id == generate_bank_uid(nonce, banks)
             t == Transfer(bal, opener, bank_account_id(id), deposit)
         IN IF ~t.ok
            THEN [res |-> "TransferFailed", id |-> 0,
                  nonce |-> id, banks |-> banks, count |-> count, bal |-> bal]
            ELSE [res |-> Ok, id |-> id, nonce |-> id,
                  banks |-> Put(banks, id, NewBankState(id, org, controller)),
                  count |-> count + 1,
                  bal |-> [bal EXCEPT ![bank_account_id(id)] = @ + deposit]]
open_bank_account_UidFirst(nonce, banks, count, bal, opener, org, deposit, controller) ==
    LET id == generate_bank_uid(nonce, banks)
        t == Transfer(bal, opener, bank_account_id(id), deposit)
    IN IF ~deposit_ok(deposit)
       THEN [res |-> "CannotOpenBankAccountIfDepositIsBelowModuleMinimum", id |-> 0,
             nonce |-> id, banks |-> banks, count |-> count, bal |-> bal]
       ELSE IF ~t.ok
       THEN [res |-> "TransferFailed", id |-> 0,
             nonce |-> id, banks |-> banks, count |-> count, bal |-> bal]
       ELSE [res |-> Ok, id |-> id, nonce |-> id,
             banks |-> Put(banks, id, NewBankState(id, org, controller)),
             count |-> count + 1, bal |-> t.bal]
open_bank_account(nonce, banks, count, bal, opener, org, deposit, controller) ==
    IF ~deposit_ok(deposit)
    THEN [res |-> "CannotOpenBankAccountIfDepositIsBelowModuleMinimum", id |-> 0,
          nonce |-> nonce, banks |-> banks, count |-> count, bal |-> bal]
    ELSE LET id == generate_bank_uid(nonce, banks)
             t == Transfer(bal, opener, bank_account_id(id), deposit)
         IN IF ~t.ok
            THEN [res |-> "TransferFailed", id |-> 0,
                  nonce |-> id, banks |-> banks, count |-> count, bal |-> bal]
            ELSE [res |-> Ok, id |-> id, nonce |-> id,
                  banks |-> Put(banks, id, NewBankState(id, org, controller)),
                  count |-> count + 1, bal |-> t.bal]

summon_moloch_AnyOpener(opener, org, deposit, controller) ==
    /\ BankIdNonce < MaxBankId
    /\ ret = Idle
    /\ UNCHANGED <<SpendNonceMap, ProposalNonceMap, SpendProps, MemberProps,
                   members, shares, votes, vote_requests, block>>
    /\ IF org_has_bank(OrgBankRegistrar, org)
       THEN /\ ret' = Result("summon_moloch", <<opener, org, deposit, controller>>, "LimitOfOneMolochPerOrg", 0)
            /\ polled' = <<>>
            /\ UNCHANGED <<BankIdNonce, TotalBankCount, OrgBankRegistrar,
                           BankStores, balances, opened>>
       ELSE LET r == open_bank_account(BankIdNonce, BankStores, TotalBankCount,
                                       balances, opener, org, deposit, controller)
            IN /\ BankIdNonce' = r.nonce
               /\ BankStores' = r.banks
               /\ TotalBankCount' = r.count
               /\ balances' = r.bal
               /\ ret' = Result("summon_moloch", <<opener, org, deposit, controller>>, r.res, r.id)
               /\ IF r.res = Ok
                  THEN /\ OrgBankRegistrar' = registrar_insert(OrgBankRegistrar, org)
                       /\ opened' = opened \cup {r.id}
                  ELSE UNCHANGED <<OrgBankRegistrar, opened>>
               /\ polled' = <<>>
summon_moloch(opener, org, deposit, controller) ==
    /\ BankIdNonce < MaxBankId
    /\ ret = Idle
    /\ UNCHANGED <<SpendNonceMap, ProposalNonceMap, SpendProps, MemberProps,
                   members, shares, votes, vote_requests, block>>
    /\ IF org_has_bank(OrgBankRegistrar, org)
       THEN /\ ret' = Result("summon_moloch", <<opener, org, deposit, controller>>, "LimitOfOneMolochPerOrg", 0)
            /\ polled' = <<>>
            /\ UNCHANGED <<BankIdNonce, TotalBankCount, OrgBankRegistrar,
                           BankStores, balances, opened>>
       ELSE IF ~is_member_of_group(members, org, opener)
       THEN /\ ret' = Result("summon_moloch", <<opener, org, deposit, controller>>, "NotPermittedToOpenBankAccountForOrg", 0)
            /\ polled' = <<>>
            /\ UNCHANGED <<BankIdNonce, TotalBankCount, OrgBankRegistrar,
                           BankStores, balances, opened>>
       ELSE LET r == open_bank_account(BankIdNonce, BankStores, TotalBankCount,
                                       balances, opener, org, deposit, controller)
            IN /\ BankIdNonce' = r.nonce
               /\ BankStores' = r.banks
               /\ TotalBankCount' = r.count
               /\ balances' = r.bal
               /\ ret' = Result("summon_moloch", <<opener, org, deposit, controller>>, r.res, r.id)
               /\ IF r.res = Ok
                  THEN /\ OrgBankRegistrar' = registrar_insert(OrgBankRegistrar, org)
                       /\ opened' = opened \cup {r.id}
                  ELSE UNCHANGED <<OrgBankRegistrar, opened>>
               /\ polled' = <<>>

\* `delivers` is the answer of the distribution service: donate(...)? returns
\* before the first write of the close when the service fails
close_org_bank_account_RemovesFirst(closer, bank_id, delivers) ==
    /\ ret = Idle
    /\ UNCHANGED <<BankIdNonce, SpendNonceMap, ProposalNonceMap, SpendProps,
                   MemberProps, members, shares, votes, vote_requests, block, opened>>
    /\ IF ~is_bank(BankStores, bank_id)
       THEN /\ ret' = Result("close_org_bank_account", <<closer, bank_id>>, "CannotCloseBankThatDNE", 0)
            /\ polled' = <<>>
            /\ UNCHANGED <<TotalBankCount, OrgBankRegistrar, BankStores, balances>>
       ELSE LET bank == BankStores[bank_id] IN
            IF ~is_controller(bank, closer)
            THEN /\ ret' = Result("close_org_bank_account", <<closer, bank_id>>,
                                  "MustBeOrgSupervisorToCloseBankAccount", 0)
                 /\ polled' = <<>>
                 /\ UNCHANGED <<TotalBankCount, OrgBankRegistrar, BankStores, balances>>
            ELSE LET acc == bank_account_id(bank_id)
                     d == IF delivers
                          THEN Donate(balances, members, shares, acc, bank.org,
                                      balances[acc])
                          ELSE [ok |-> FALSE, bal |-> balances]
                 IN /\ balances' = d.bal
                    /\ BankStores' = Del(BankStores, bank_id)
                    /\ TotalBankCount' = TotalBankCount - 1
                    /\ OrgBankRegistrar' = OrgBankRegistrar \ {bank.org}
                    /\ ret' = Result("close_org_bank_account", <<closer, bank_id>>,
                                     IF d.ok THEN Ok ELSE "DonateFailed", 0)
                    /\ polled' = <<>>
close_org_bank_account(closer, bank_id, delivers) ==
    /\ ret = Idle
    /\ UNCHANGED <<BankIdNonce, SpendNonceMap, ProposalNonceMap, SpendProps,
                   MemberProps, members, shares, votes, vote_requests, block, opened>>
    /\ IF ~is_bank(BankStores, bank_id)
       THEN /\ ret' = Result("close_org_bank_account", <<closer, bank_id>>, "CannotCloseBankThatDNE", 0)
            /\ polled' = <<>>
            /\ UNCHANGED <<TotalBankCount, OrgBankRegistrar, BankStores, balances>>
       ELSE LET bank == BankStores[bank_id] IN
            IF ~is_controller(bank, closer)
            THEN /\ ret' = Result("close_org_bank_account", <<closer, bank_id>>,
                                  "MustBeOrgSupervisorToCloseBankAccount", 0)
                 /\ polled' = <<>>
                 /\ UNCHANGED <<TotalBankCount, OrgBankRegistrar, BankStores, balances>>
            ELSE LET acc == bank_account_id(bank_id)
                     d == IF delivers
                          THEN Donate(balances, members, shares, acc, bank.org,
                                      balances[acc])
                          ELSE [ok |-> FALSE, bal |-> balances]
                 IN IF ~d.ok
                    THEN /\ ret' = Result("close_org_bank_account", <<closer, bank_id>>, "DonateFailed", 0)
                         /\ polled' = <<>>
                         /\ UNCHANGED <<TotalBankCount, OrgBankRegistrar,
                                        BankStores, balances>>
                    ELSE /\ balances' = d.bal
                         /\ BankStores' = Del(BankStores, bank_id)
                         /\ TotalBankCount' = U32Dec(TotalBankCount)
                         /\ OrgBankRegistrar' = OrgBankRegistrar \ {bank.org}
                         /\ ret' = Result("close_org_bank_account", <<closer, bank_id>>, Ok, 0)
                         /\ polled' = <<>>

\* -------------------------------------------------------- the vote service
\* open_percent_vote: a new vote, not yet decided, under the next vote id
OpenVote(vts) == [id |-> Len(vts) + 1, votes |-> Append(vts, "Voting")]
get_vote_outcome(vts, vote_id) ==
    IF vote_id \in DOMAIN vts
    THEN [ok |-> TRUE, outcome |-> vts[vote_id]]
    ELSE [ok |-> FALSE, outcome |-> "NotStarted"]

\* -------------------------------------------------- spend proposal machine
\* the arm `WaitingForApproval =>` of the match in trigger_vote_on_spend_proposal
spend_vote_triggerable_Any(s) == ~IsTerminal(s)
spend_vote_triggerable(s) == s = WaitingForApproval
\* the arm `WaitingForApproval | Voting(_) =>` of the match in sudo_approve
sudo_approvable_Any(s) == TRUE
sudo_approvable(s) == s = WaitingForApproval \/ IsVoting(s)

propose_spend_SharedNonce(banks, nonces, props, mem, caller, bank_id, amount, dest) ==
    IF ~is_bank(banks, bank_id)
    THEN [res |-> "BankMustExistToProposeFrom", id |-> 0,
          nonces |-> nonces, props |-> props]
    ELSE IF ~is_member_of_group(mem, banks[bank_id].org, caller)
    THEN [res |-> "NotPermittedToProposeSpendForBankAccount", id |-> 0,
          nonces |-> nonces, props |-> props]
    ELSE LET new_spend_id == generate_spend_uid(nonces, props, bank_id)
         IN [res |-> Ok, id |-> new_spend_id,
             nonces |-> [b \in BankIds |-> new_spend_id],
             props |-> Put(props, <<bank_id, new_spend_id>>,
                           NewSpendProposal(bank_id, new_spend_id, amount, dest))]
propose_spend(banks, nonces, props, mem, caller, bank_id, amount, dest) ==
    IF ~is_bank(banks, bank_id)
    THEN [res |-> "BankMustExistToProposeFrom", id |-> 0,
          nonces |-> nonces, props |-> props]
    ELSE IF ~is_member_of_group(mem, banks[bank_id].org, caller)
    THEN [res |-> "NotPermittedToProposeSpendForBankAccount", id |-> 0,
          nonces |-> nonces, props |-> props]
    ELSE LET new_spend_id == generate_spend_uid(nonces, props, bank_id)
         IN [res |-> Ok, id |-> new_spend_id,
             nonces |-> Put(nonces, bank_id, new_spend_id),
             props |-> Put(props, <<bank_id, new_spend_id>>,
                           NewSpendProposal(bank_id, new_spend_id, amount, dest))]

\* open_percent_vote(None, OrgRep::Equal(bank.org()),
\*                   Threshold::new(Permill::one(), None), None)
spend_vote_request_Weighted(bank) ==
    [topic |-> None, rep |-> <<"Weighted", bank.org>>,
     support |-> <<"Permill", 1000000>>, turnout |-> None, duration |-> None]
spend_vote_request(bank) ==
    [topic |-> None, rep |-> <<"Equal", bank.org>>,
     support |-> <<"Permill", 1000000>>, turnout |-> None, duration |-> None]

trigger_vote_on_spend_proposal(banks, props, mem, vts, caller, bank_id, spend_id, opens) ==
    IF ~is_bank(banks, bank_id)
    THEN [res |-> "CannotTriggerVoteIfBaseBankDNE", id |-> 0,
          props |-> props, votes |-> vts]
    ELSE IF ~is_member_of_group(mem, banks[bank_id].org, caller)
    THEN [res |-> "NotPermittedToTriggerVoteForBankAccount", id |-> 0,
          props |-> props, votes |-> vts]
    ELSE IF ~is_spend(props, bank_id, spend_id)
    THEN [res |-> "CannotTriggerVoteForSpendIfSpendProposalDNE", id |-> 0,
          props |-> props, votes |-> vts]
    ELSE LET spend_proposal == props[<<bank_id, spend_id>>] IN
         IF spend_vote_triggerable(spend_proposal.state)
         THEN IF ~opens
              THEN [res |-> "OpenVoteFailed", id |-> 0,
                    props |-> props, votes |-> vts]
              ELSE LET v == OpenVote(vts)
                   IN [res |-> Ok, id |-> v.id, votes |-> v.votes,
                       req |-> spend_vote_request(banks[bank_id]),
                       props |-> Put(props, <<bank_id, spend_id>>,
                                     set_state(spend_proposal, Voting(v.id)))]
         ELSE [res |-> "CannotTriggerVoteFromCurrentSpendProposalState", id |-> 0,
               props |-> props, votes |-> vts]

\* the transfer out of the custodial account and the terminal state it gives
execute_spend_DropsProposal(props, bal, bank_id, spend_id) ==
    LET spend_proposal == props[<<bank_id, spend_id>>]
        t == Transfer(bal, bank_account_id(bank_id), spend_proposal.dest,
                      spend_proposal.amount)
    IN [state |-> IF t.ok THEN ApprovedAndExecuted ELSE ApprovedButNotExecuted,
        bal |-> t.bal, props |-> Del(props, <<bank_id, spend_id>>)]
execute_spend_AllowDeath(props, bal, bank_id, spend_id) ==
    LET spend_proposal == props[<<bank_id, spend_id>>]
        from == bank_account_id(bank_id)
        ok == bal[from] >= spend_proposal.amount
    IN [state |-> IF ok THEN ApprovedAndExecuted ELSE ApprovedButNotExecuted,
        bal |-> IF ok THEN [bal EXCEPT ![from] = @ - spend_proposal.amount,
                                       ![spend_proposal.dest] = @ + spend_proposal.amount]
                ELSE bal,
        props |-> Put(props, <<bank_id, spend_id>>,
                      set_state(spend_proposal,
                                IF ok THEN ApprovedAndExecuted
                                ELSE ApprovedButNotExecuted))]
execute_spend_StaleState(props, bal, bank_id, spend_id) ==
    LET spend_proposal == props[<<bank_id, spend_id>>]
        t == Transfer(bal, bank_account_id(bank_id), spend_proposal.dest,
                      spend_proposal.amount)
        new_spend_proposal ==
            IF t.ok THEN set_state(spend_proposal, ApprovedAndExecuted)
            ELSE set_state(spend_proposal, ApprovedButNotExecuted)
    IN [state |-> spend_proposal.state, bal |-> t.bal,
        props |-> Put(props, <<bank_id, spend_id>>, new_spend_proposal)]
execute_spend_KeepsOnFail(props, bal, bank_id, spend_id) ==
    LET spend_proposal == props[<<bank_id, spend_id>>]
        t == Transfer(bal, bank_account_id(bank_id), spend_proposal.dest,
                      spend_proposal.amount)
        new_spend_proposal ==
            IF t.ok THEN set_state(spend_proposal, ApprovedAndExecuted)
            ELSE spend_proposal
    IN [state |-> new_spend_proposal.state, bal |-> t.bal,
        props |-> Put(props, <<bank_id, spend_id>>, new_spend_proposal)]
execute_spend(props, bal, bank_id, spend_id) ==
    LET spend_proposal == props[<<bank_id, spend_id>>]
        t == Transfer(bal, bank_account_id(bank_id), spend_proposal.dest,
                      spend_proposal.amount)
        new_spend_proposal ==
            IF t.ok THEN set_state(spend_proposal, ApprovedAndExecuted)
            ELSE set_state(spend_proposal, ApprovedButNotExecuted)
    IN [state |-> new_spend_proposal.state, bal |-> t.bal,
        props |-> Put(props, <<bank_id, spend_id>>, new_spend_proposal)]

sudo_approve_spend_proposal(banks, props, bal, caller, bank_id, spend_id) ==
    IF ~is_bank(banks, bank_id)
    THEN [res |-> "CannotSudoApproveSpendProposalIfBaseBankDNE",
          props |-> props, bal |-> bal]
    ELSE IF ~is_controller(banks[bank_id], caller)
    THEN [res |-> "NotPermittedToSudoApproveForBankAccount",
          props |-> props, bal |-> bal]
    ELSE IF ~is_spend(props, bank_id, spend_id)
    THEN [res |-> "CannotSudoApproveSpendProposalIfSpendProposalDNE",
          props |-> props, bal |-> bal]
    ELSE LET s == props[<<bank_id, spend_id>>].state IN
         IF sudo_approvable(s)
         THEN LET e == execute_spend(props, bal, bank_id, spend_id)
              IN [res |-> Ok, props |-> e.props, bal |-> e.bal]
         ELSE [res |-> "CannotApproveAlreadyApprovedSpendProposal",
               props |-> props, bal |-> bal]

\* `if vote_outcome == VoteOutcome::Approved` in poll_spend_proposal
spend_outcome_approved_Decided(outcome) == outcome # "Voting"
spend_outcome_approved(outcome) == outcome = "Approved"

poll_spend_proposal_Retries(banks, props, bal, vts, bank_id, spend_id) ==
    IF ~is_bank(banks, bank_id)
    THEN [res |-> "CannotPollProposalIfBaseBankDNE", state |-> None,
          props |-> props, bal |-> bal]
    ELSE IF ~is_spend(props, bank_id, spend_id)
    THEN [res |-> "CannotPollProposalIfProposalDNE", state |-> None,
          props |-> props, bal |-> bal]
    ELSE LET s == props[<<bank_id, spend_id>>].state IN
         IF s = ApprovedButNotExecuted
         THEN LET e == execute_spend(props, bal, bank_id, spend_id)
              IN [res |-> Ok, state |-> e.state, props |-> e.props, bal |-> e.bal]
         ELSE IF IsVoting(s)
         THEN LET o == get_vote_outcome(vts, s[2]) IN
              IF ~o.ok
              THEN [res |-> "VoteOutcomeFailed", state |-> None,
                    props |-> props, bal |-> bal]
              ELSE IF o.outcome = "Approved"
              THEN LET e == execute_spend(props, bal, bank_id, spend_id)
                   IN [res |-> Ok, state |-> e.state,
                       props |-> e.props, bal |-> e.bal]
              ELSE [res |-> Ok, state |-> s, props |-> props, bal |-> bal]
         ELSE [res |-> Ok, state |-> s, props |-> props, bal |-> bal]
poll_spend_proposal(banks, props, bal, vts, bank_id, spend_id) ==
    IF ~is_bank(banks, bank_id)
    THEN [res |-> "CannotPollProposalIfBaseBankDNE", state |-> None,
          props |-> props, bal |-> bal]
    ELSE IF ~is_spend(props, bank_id, spend_id)
    THEN [res |-> "CannotPollProposalIfProposalDNE", state |-> None,
          props |-> props, bal |-> bal]
    ELSE LET s == props[<<bank_id, spend_id>>].state IN
         IF IsVoting(s)
         THEN LET o == get_vote_outcome(vts, s[2]) IN
              IF ~o.ok
              THEN [res |-> "VoteOutcomeFailed", state |-> None,
                    props |-> props, bal |-> bal]
              ELSE IF spend_outcome_approved(o.outcome)
              THEN LET e == execute_spend(props, bal, bank_id, spend_id)
                   IN [res |-> Ok, state |-> e.state,
                       props |-> e.props, bal |-> e.bal]
              ELSE [res |-> Ok, state |-> s, props |-> props, bal |-> bal]
         ELSE [res |-> Ok, state |-> s, props |-> props, bal |-> bal]

member_proposes_spend(caller, bank_id, amount, dest) ==
    /\ ret = Idle
    /\ PropCount < MaxProps
    /\ LET r == propose_spend(BankStores, SpendNonceMap, SpendProps, members,
                              caller, bank_id, amount, dest)
       IN /\ SpendNonceMap' = r.nonces
          /\ SpendProps' = r.props
          /\ ret' = Result("member_proposes_spend", <<caller, bank_id, amount, dest>>, r.res, r.id)
          /\ polled' = <<>>
    /\ UNCHANGED <<BankIdNonce, ProposalNonceMap, TotalBankCount, OrgBankRegistrar,
                   BankStores, MemberProps, collab, block, opened>>

member_triggers_vote_on_spend_proposal(caller, bank_id, spend_id, opens) ==
    /\ ret = Idle
    /\ LET r == trigger_vote_on_spend_proposal(BankStores, SpendProps, members,
                                               votes, caller, bank_id, spend_id, opens)
       IN /\ SpendProps' = r.props
          /\ votes' = r.votes
          /\ vote_requests' = IF r.res = Ok THEN Append(vote_requests, r.req)
                                            ELSE vote_requests
          /\ ret' = Result("member_triggers_vote_on_spend_proposal", <<caller, bank_id, spend_id>>, r.res, r.id)
          /\ polled' = <<>>
    /\ UNCHANGED <<BankIdNonce, SpendNonceMap, ProposalNonceMap, TotalBankCount,
                   OrgBankRegistrar, BankStores, MemberProps, balances, members,
                   shares, block, opened>>

member_sudo_approves_spend_proposal(caller, bank_id, spend_id) ==
    /\ ret = Idle
    /\ LET r == sudo_approve_spend_proposal(BankStores, SpendProps, balances,
                                            caller, bank_id, spend_id)
       IN /\ SpendProps' = r.props
          /\ balances' = r.bal
          /\ ret' = Result("member_sudo_approves_spend_proposal", <<caller, bank_id, spend_id>>, r.res, 0)
          /\ polled' = <<>>
    /\ UNCHANGED <<BankIdNonce, SpendNonceMap, ProposalNonceMap, TotalBankCount,
                   OrgBankRegistrar, BankStores, MemberProps, members, shares,
                   votes, vote_requests, block, opened>>

\* SpendGovernance::poll_spend_proposal called on its own (it is a public
\* trait method; it deposits no event)
PollSpend(bank_id, spend_id) ==
    /\ ret = Idle
    /\ LET r == poll_spend_proposal(BankStores, SpendProps, balances, votes,
                                    bank_id, spend_id)
       IN /\ SpendProps' = r.props
          /\ balances' = r.bal
          /\ ret' = Result("poll_spend_proposal", <<bank_id, spend_id>>, r.res, r.state)
          /\ polled' = <<>>
    /\ UNCHANGED <<BankIdNonce, SpendNonceMap, ProposalNonceMap, TotalBankCount,
                   OrgBankRegistrar, BankStores, MemberProps, members, shares,
                   votes, vote_requests, block, opened>>

\* the vote service decides an open vote
VoteDecided(vote_id, outcome) ==
    /\ ret = Idle
    /\ vote_id \in DOMAIN votes
    /\ votes[vote_id] = "Voting"
    /\ votes' = [votes EXCEPT ![vote_id] = outcome]
    /\ ret' = Result("vote", <<vote_id, outcome>>, Ok, 0)
    /\ polled' = <<>>
    /\ UNCHANGED <<storage, balances, members, shares, vote_requests, block, opened>>

\* --------------------------------------------- membership proposal machine
\* the arm `WaitingForApproval =>` of the match in trigger_vote_on_member_proposal
member_vote_triggerable_Any(s) == ~IsTerminal(s)
member_vote_triggerable(s) == s = WaitingForApproval

propose_membership(banks, nonces, props, mem, caller, bank_id, tribute, shares_requested, applicant) ==
    IF ~is_bank(banks, bank_id)
    THEN [res |-> "BankMustExistToProposeFrom", id |-> 0,
          nonces |-> nonces, props |-> props]
    ELSE IF ~is_member_of_group(mem, banks[bank_id].org, caller)
    THEN [res |-> "MustBeMemberToSponsorMembershipProposal", id |-> 0,
          nonces |-> nonces, props |-> props]
    ELSE LET id == generate_proposal_uid(nonces, props, bank_id)
         IN [res |-> Ok, id |-> id,
             nonces |-> Put(nonces, bank_id, id),
             props |-> Put(props, <<bank_id, id>>,
                           NewMemberProposal(bank_id, id, tribute,
                                             shares_requested, applicant))]

member_vote_request(bank) ==
    [topic |-> None, rep |-> <<"Equal", bank.org>>,
     support |-> <<"Permill", 1000000>>, turnout |-> None, duration |-> None]

trigger_vote_on_member_proposal(banks, props, mem, vts, caller, bank_id, proposal_id, opens) ==
    IF ~is_bank(banks, bank_id)
    THEN [res |-> "CannotTriggerVoteIfBaseBankDNE", id |-> 0,
          props |-> props, votes |-> vts]
    ELSE IF ~is_member_of_group(mem, banks[bank_id].org, caller)
    THEN [res |-> "NotPermittedToTriggerVoteForBankAccount", id |-> 0,
          props |-> props, votes |-> vts]
    ELSE IF ~is_proposal(props, bank_id, proposal_id)
    THEN [res |-> "CannotTriggerVoteForMemberIfMemberProposalDNE", id |-> 0,
          props |-> props, votes |-> vts]
    ELSE LET member_proposal == props[<<bank_id, proposal_id>>] IN
         IF member_vote_triggerable(member_proposal.state)
         THEN IF ~opens
              THEN [res |-> "OpenVoteFailed", id |-> 0,
                    props |-> props, votes |-> vts]
              ELSE LET v == OpenVote(vts)
                   IN [res |-> Ok, id |-> v.id, votes |-> v.votes,
                       req |-> member_vote_request(banks[bank_id]),
                       props |-> Put(props, <<bank_id, proposal_id>>,
                                     set_state(member_proposal, Voting(v.id)))]
         ELSE [res |-> "CannotTriggerVoteFromCurrentMemberProposalState", id |-> 0,
               props |-> props, votes |-> vts]

\* the tribute is transferred first and the shares are minted after it; an
\* error of the mint leaves the transfer in place
execute_member_proposal_SkipsTransfer(bal, mem, shs, bank, applicant, tribute, shares_to_mint) ==
    LET i == Issue(mem, shs, bank.org, applicant, shares_to_mint) IN
    IF ~i.ok
    THEN [ok |-> FALSE, bal |-> bal, mem |-> mem, shs |-> shs]
    ELSE [ok |-> TRUE, bal |-> bal, mem |-> i.mem, shs |-> i.shs]
execute_member_proposal(bal, mem, shs, bank, applicant, tribute, shares_to_mint) ==
    LET t == Transfer(bal, applicant, bank_account_id(bank.id), tribute) IN
    IF ~t.ok
    THEN [ok |-> FALSE, bal |-> bal, mem |-> mem, shs |-> shs]
    ELSE LET i == Issue(mem, shs, bank.org, applicant, shares_to_mint) IN
         IF ~i.ok
         THEN [ok |-> FALSE, bal |-> t.bal, mem |-> mem, shs |-> shs]
         ELSE [ok |-> TRUE, bal |-> t.bal, mem |-> i.mem, shs |-> i.shs]

poll_membership_proposal(banks, props, bal, mem, shs, vts, bank_id, proposal_id) ==
    IF ~is_bank(banks, bank_id)
    THEN [res |-> "CannotPollProposalIfBaseBankDNE", state |-> None,
          props |-> props, bal |-> bal, mem |-> mem, shs |-> shs]
    ELSE IF ~is_proposal(props, bank_id, proposal_id)
    THEN [res |-> "CannotPollProposalIfProposalDNE", state |-> None,
          props |-> props, bal |-> bal, mem |-> mem, shs |-> shs]
    ELSE LET member_proposal == props[<<bank_id, proposal_id>>]
             s == member_proposal.state
         IN
         IF IsVoting(s)
         THEN LET o == get_vote_outcome(vts, s[2]) IN
              IF ~o.ok
              THEN [res |-> "VoteOutcomeFailed", state |-> None,
                    props |-> props, bal |-> bal, mem |-> mem, shs |-> shs]
              ELSE IF o.outcome = "Approved"
              THEN LET e == execute_member_proposal(bal, mem, shs, banks[bank_id],
                                member_proposal.applicant, member_proposal.tribute,
                                member_proposal.shares_requested)
                       new_member_proposal ==
                           IF e.ok
                           THEN set_state(member_proposal, ApprovedAndExecuted)
                           ELSE set_state(member_proposal, ApprovedButNotExecuted)
                   IN [res |-> Ok, state |-> new_member_proposal.state,
                       props |-> Put(props, <<bank_id, proposal_id>>,
                                     new_member_proposal),
                       bal |-> e.bal, mem |-> e.mem, shs |-> e.shs]
              ELSE [res |-> Ok, state |-> s, props |-> props, bal |-> bal,
                    mem |-> mem, shs |-> shs]
         ELSE [res |-> Ok, state |-> s, props |-> props, bal |-> bal,
               mem |-> mem, shs |-> shs]

member_proposes_member(caller, bank_id, tribute, shares_requested, applicant) ==
    /\ ret = Idle
    /\ PropCount < MaxProps
    /\ LET r == propose_membership(BankStores, ProposalNonceMap, MemberProps,
                                   members, caller, bank_id, tribute,
                                   shares_requested, applicant)
       IN /\ ProposalNonceMap' = r.nonces
          /\ MemberProps' = r.props
          /\ ret' = Result("member_proposes_member", <<caller, bank_id, tribute, shares_requested, applicant>>, r.res, r.id)
          /\ polled' = <<>>
    /\ UNCHANGED <<BankIdNonce, SpendNonceMap, TotalBankCount, OrgBankRegistrar,
                   BankStores, SpendProps, collab, block, opened>>

member_triggers_vote_on_member_proposal(caller, bank_id, proposal_id, opens) ==
    /\ ret = Idle
    /\ LET r == trigger_vote_on_member_proposal(BankStores, MemberProps, members,
                                                votes, caller, bank_id,
                                                proposal_id, opens)
       IN /\ MemberProps' = r.props
          /\ votes' = r.votes
          /\ vote_requests' = IF r.res = Ok THEN Append(vote_requests, r.req)
                                            ELSE vote_requests
          /\ ret' = Result("member_triggers_vote_on_member_proposal", <<caller, bank_id, proposal_id>>, r.res, r.id)
          /\ polled' = <<>>
    /\ UNCHANGED <<BankIdNonce, SpendNonceMap, ProposalNonceMap, TotalBankCount,
                   OrgBankRegistrar, BankStores, SpendProps, balances, members,
                   shares, block, opened>>

\* MolochMembership::poll_membership_proposal called on its own
PollMember(bank_id, proposal_id) ==
    /\ ret = Idle
    /\ LET r == poll_membership_proposal(BankStores, MemberProps, balances,
                                         members, shares, votes, bank_id,
                                         proposal_id)
       IN /\ MemberProps' = r.props
          /\ balances' = r.bal
          /\ members' = r.mem
          /\ shares' = r.shs
          /\ ret' = Result("poll_membership_proposal", <<bank_id, proposal_id>>, r.res, r.state)
          /\ polled' = <<>>
    /\ UNCHANGED <<BankIdNonce, SpendNonceMap, ProposalNonceMap, TotalBankCount,
                   OrgBankRegistrar, BankStores, SpendProps, votes, vote_requests, block, opened>>

\* ------------------------------------------------------------- the poller
\* the storage maps are iterated in the order of their hashed keys: any order
Orders(S) ==
    {o \in [1..Cardinality(S) -> S] : \A i, j \in DOMAIN o : i # j => o[i] # o[j]}

\* iter().map(poll ... ?).collect::<DispatchResult>(): the collect stops at
\* the first poll that is an Err
RECURSIVE SweepSpend(_, _, _, _, _, _, _)
SweepSpend(order, i, banks, props, bal, vts, evs) ==
    IF i > Len(order) THEN [props |-> props, bal |-> bal, evs |-> evs]
    ELSE LET r == poll_spend_proposal(banks, props, bal, vts,
                                      order[i][1], order[i][2])
         IN IF r.res # Ok THEN [props |-> props, bal |-> bal, evs |-> evs]
            ELSE SweepSpend(order, i + 1, banks, r.props, r.bal, vts,
                            Append(evs, <<"SpendProposalPolled", order[i][1],
                                          order[i][2], r.state>>))

RECURSIVE SweepMember(_, _, _, _, _, _, _, _, _)
SweepMember(order, i, banks, props, bal, mem, shs, vts, evs) ==
    IF i > Len(order)
    THEN [props |-> props, bal |-> bal, mem |-> mem, shs |-> shs, evs |-> evs]
    ELSE LET r == poll_membership_proposal(banks, props, bal, mem, shs, vts,
                                           order[i][1], order[i][2])
         IN IF r.res # Ok
            THEN [props |-> props, bal |-> bal, mem |-> mem, shs |-> shs,
                  evs |-> evs]
            ELSE SweepMember(order, i + 1, banks, r.props, r.bal, r.mem, r.shs,
                             vts, Append(evs, <<"MemberProposalPolled",
                                                order[i][1], order[i][2], r.state>>))

SpendPollDue_Always(n) == TRUE
SpendPollDue(n) == n % SpendPollFrequency = 0
MemberPollDue(n) == n % MemberPollFrequency = 0

\* the finalize hook of the current block; the next block begins after it
on_finalize(spend_order, member_order) ==
    /\ ret = Idle
    /\ block < MaxBlock
    /\ LET sp == IF SpendPollDue(block)
                 THEN SweepSpend(spend_order, 1, BankStores, SpendProps,
                                 balances, votes, <<>>)
                 ELSE [props |-> SpendProps, bal |-> balances, evs |-> <<>>]
           mp == IF MemberPollDue(block)
                 THEN SweepMember(member_order, 1, BankStores, MemberProps,
                                  sp.bal, members, shares, votes, <<>>)
                 ELSE [props |-> MemberProps, bal |-> sp.bal, mem |-> members,
                       shs |-> shares, evs |-> <<>>]
       IN /\ SpendProps' = sp.props
          /\ MemberProps' = mp.props
          /\ balances' = mp.bal
          /\ members' = mp.mem
          /\ shares' = mp.shs
          /\ polled' = sp.evs \o mp.evs
    /\ ret' = Result("on_finalize", <<block>>, Ok, block)
    /\ block' = block + 1
    /\ UNCHANGED <<BankIdNonce, SpendNonceMap, ProposalNonceMap, TotalBankCount,
                   OrgBankRegistrar, BankStores, votes, vote_requests, opened>>

\* the call has returned to its caller
Return ==
    /\ ret # Idle
    /\ ret' = Idle
    /\ polled' = <<>>
    /\ UNCHANGED <<storage, collab, block, opened>>

Init ==
    /\ BankIdNonce = 0
    /\ SpendNonceMap = <<>>
    /\ ProposalNonceMap = <<>>
    /\ TotalBankCount = 0
    /\ OrgBankRegistrar = {}
    /\ BankStores = <<>>
    /\ SpendProps = <<>>
    /\ MemberProps = <<>>
    /\ balances = [a \in AllAccounts |->
                     IF a = Alice THEN 5 ELSE IF a = Bob THEN 2 ELSE 0]
    /\ members = [o \in Orgs |-> IF o = 1 THEN {Alice} ELSE {Bob}]
    /\ shares = [o \in Orgs |-> [u \in Users |->
                                  IF (o = 1) = (u = Alice) THEN 1 ELSE 0]]
    /\ votes = <<>>
    /\ block = 1
    /\ vote_requests = <<>>
    /\ opened = {}
    /\ ret = Idle
    /\ polled = <<>>

Next ==
    \/ \E opener \in Users, org \in Orgs, deposit \in Deposits,
          controller \in Controllers :
          summon_moloch(opener, org, deposit, controller)
    \/ \E closer \in Users, bank_id \in BankIds, delivers \in BOOLEAN :
          close_org_bank_account(closer, bank_id, delivers)
    \/ \E caller \in Users, bank_id \in BankIds, amount \in Amounts, dest \in Dests :
          member_proposes_spend(caller, bank_id, amount, dest)
    \/ \E caller \in Users, bank_id \in BankIds, spend_id \in SpendIds,
          opens \in BOOLEAN :
          member_triggers_vote_on_spend_proposal(caller, bank_id, spend_id, opens)
    \/ \E caller \in Users, bank_id \in BankIds, spend_id \in SpendIds :
          member_sudo_approves_spend_proposal(caller, bank_id, spend_id)
    \/ \E bank_id \in BankIds, spend_id \in SpendIds :
          PollSpend(bank_id, spend_id)
    \/ \E caller \in Users, bank_id \in BankIds, tribute \in Tributes,
          shares_requested \in ShareAmounts, applicant \in Applicants :
          member_proposes_member(caller, bank_id, tribute, shares_requested, applicant)
    \/ \E caller \in Users, bank_id \in BankIds, proposal_id \in ProposalIds,
          opens \in BOOLEAN :
          member_triggers_vote_on_member_proposal(caller, bank_id, proposal_id, opens)
    \/ \E bank_id \in BankIds, proposal_id \in ProposalIds :
          PollMember(bank_id, proposal_id)
    \/ \E vote_id \in VoteIds, outcome \in {"Approved", "Rejected"} :
          VoteDecided(vote_id, outcome)
    \/ \E spend_order \in Orders(DOMAIN SpendProps),
          member_order \in Orders(DOMAIN MemberProps) :
          on_finalize(spend_order, member_order)
    \/ Return

Spec == Init /\ [][Next]_vars

\* ------------------------------------------------- imbalances (share.rs)
\* an imbalance token: funds created (Positive) or destroyed (Negative) and
\* not yet accounted for
MaxMagnitude == 3
Polarities == {"Positive", "Negative"}
Magnitudes == 0..MaxMagnitude
Tokens == [pol : Polarities, mag : Magnitudes]
Opposite(pol) == IF pol = "Positive" THEN "Negative" ELSE "Positive"
zero(pol) == [pol |-> pol, mag |-> 0]
peek(t) == t.mag

\* the first is at most `amount` and the second is the remainder
split_Whole(t, amount) ==
    <<[pol |-> t.pol, mag |-> amount], [pol |-> t.pol, mag |-> t.mag - amount]>>
split(t, amount) ==
    LET first == IF amount < t.mag THEN amount ELSE t.mag
    IN <<[pol |-> t.pol, mag |-> first], [pol |-> t.pol, mag |-> t.mag - first]>>

\* a new instance that combines both
merge(x, y) == [pol |-> x.pol, mag |-> x.mag + y.mag]

\* Ok with an instance of Self if this instance has a greater value than the
\* other, otherwise Err with an instance of the Opposite
offset_GreaterOrEqual(s, other) ==
    IF s.mag >= other.mag
    THEN [ok |-> TRUE, tok |-> [pol |-> s.pol, mag |-> s.mag - other.mag]]
    ELSE [ok |-> FALSE, tok |-> [pol |-> other.pol, mag |-> other.mag - s.mag]]
offset(s, other) ==
    IF s.mag > other.mag
    THEN [ok |-> TRUE, tok |-> [pol |-> s.pol, mag |-> s.mag - other.mag]]
    ELSE [ok |-> FALSE, tok |-> [pol |-> other.pol, mag |-> other.mag - s.mag]]

\* .ok().unwrap_or_else(zero)
ok_or_zero(r, pol) == IF r.ok THEN r.tok ELSE zero(pol)

\* SignedImbalance::Positive(P) and SignedImbalance::Negative(P::Opposite)
Positive(p) == [sign |-> "Positive", tok |-> p]
Negative(n) == [sign |-> "Negative", tok |-> n]
SignedTokens == {[sign |-> t.pol, tok |-> t] : t \in Tokens}

SignedImbalance_merge_NoOffset(a, b) ==
    IF a.sign = b.sign THEN [sign |-> a.sign, tok |-> merge(a.tok, b.tok)]
    ELSE IF peek(a.tok) > peek(b.tok) THEN a ELSE b
RECURSIVE SignedImbalance_merge(_, _)
SignedImbalance_merge(a, b) ==
    IF a.sign = "Positive" /\ b.sign = "Positive"
    THEN Positive(merge(a.tok, b.tok))
    ELSE IF a.sign = "Negative" /\ b.sign = "Negative"
    THEN Negative(merge(a.tok, b.tok))
    ELSE IF a.sign = "Positive" /\ b.sign = "Negative"
    THEN IF peek(a.tok) > peek(b.tok)
         THEN Positive(ok_or_zero(offset(a.tok, b.tok), "Positive"))
         ELSE Negative(ok_or_zero(offset(b.tok, a.tok), "Negative"))
    ELSE SignedImbalance_merge(b, a)

\* one call of each function, on any token in range; the pallet state is not
\* touched
imbalance_split(t, amount) ==
    /\ ret = Idle
    /\ ret' = Result("split", <<t, amount>>, Ok, split(t, amount))
    /\ polled' = <<>>
    /\ UNCHANGED <<storage, collab, block, opened>>

imbalance_merge(x, y) ==
    /\ ret = Idle
    /\ x.pol = y.pol
    /\ ret' = Result("merge", <<x, y>>, Ok, merge(x, y))
    /\ polled' = <<>>
    /\ UNCHANGED <<storage, collab, block, opened>>

imbalance_offset(s, other) ==
    /\ ret = Idle
    /\ other.pol = Opposite(s.pol)
    /\ LET r == offset(s, other)
       IN ret' = Result("offset", <<s, other>>, IF r.ok THEN Ok ELSE "Err", r.tok)
    /\ polled' = <<>>
    /\ UNCHANGED <<storage, collab, block, opened>>

imbalance_peek(t) ==
    /\ ret = Idle
    /\ ret' = Result("peek", <<t>>, Ok, [value |-> peek(t), tok |-> t])
    /\ polled' = <<>>
    /\ UNCHANGED <<storage, collab, block, opened>>

signed_imbalance_merge(a, b) ==
    /\ ret = Idle
    /\ ret' = Result("SignedImbalance::merge", <<a, b>>, Ok,
                     [fwd |-> SignedImbalance_merge(a, b),
                      bwd |-> SignedImbalance_merge(b, a)])
    /\ polled' = <<>>
    /\ UNCHANGED <<storage, collab, block, opened>>

ImbalanceNext ==
    \/ \E t \in Tokens, amount \in 0..(MaxMagnitude + 1) : imbalance_split(t, amount)
    \/ \E x \in Tokens, y \in Tokens : imbalance_merge(x, y)
    \/ \E s \in Tokens, other \in Tokens : imbalance_offset(s, other)
    \/ \E t \in Tokens : imbalance_peek(t)
    \/ \E a \in SignedTokens, b \in SignedTokens : signed_imbalance_merge(a, b)
    \/ Return

ImbalanceSpec == Init /\ [][ImbalanceNext]_vars

\* ------------------------------------------------ the poller left alone
\* on_finalize reads the block number only through n % frequency (354, 362):
\* after the first block the numbers are kept within one common period of the
\* two cadences, so that blocks never stop
BlockCycle == SpendPollFrequency * MemberPollFrequency
NextBlock(n) == IF n > BlockCycle THEN n + 1 - BlockCycle ELSE n + 1

on_finalize_every_block(spend_order, member_order) ==
    /\ ret = Idle
    /\ LET sp == IF SpendPollDue(block)
                 THEN SweepSpend(spend_order, 1, BankStores, SpendProps,
                                 balances, votes, <<>>)
                 ELSE [props |-> SpendProps, bal |-> balances, evs |-> <<>>]
           mp == IF MemberPollDue(block)
                 THEN SweepMember(member_order, 1, BankStores, MemberProps,
                                  sp.bal, members, shares, votes, <<>>)
                 ELSE [props |-> MemberProps, bal |-> sp.bal, mem |-> members,
                       shs |-> shares, evs |-> <<>>]
       IN /\ SpendProps' = sp.props
          /\ MemberProps' = mp.props
          /\ balances' = mp.bal
          /\ members' = mp.mem
          /\ shares' = mp.shs
          /\ polled' = sp.evs \o mp.evs
    /\ ret' = Result("on_finalize", <<block>>, Ok, block)
    /\ block' = NextBlock(block)
    /\ UNCHANGED <<BankIdNonce, SpendNonceMap, ProposalNonceMap, TotalBankCount,
                   OrgBankRegistrar, BankStores, votes, vote_requests, opened>>

Finalize ==
    \E spend_order \in Orders(DOMAIN SpendProps),
       member_order \in Orders(DOMAIN MemberProps) :
       on_finalize_every_block(spend_order, member_order)

\* the external commands all arrive in the first block; from the second
\* block on only blocks are produced
LiveNext ==
    \/ block = 1 /\ summon_moloch(Alice, 1, MinDeposit + 1, Alice)
    \/ \E bank_id \in BankIds :
          block = 1 /\ close_org_bank_account(Alice, bank_id, TRUE)
    \/ \E bank_id \in BankIds, amount \in Amounts, dest \in Dests :
          block = 1 /\ member_proposes_spend(Alice, bank_id, amount, dest)
    \/ \E bank_id \in BankIds, spend_id \in SpendIds :
          block = 1 /\ member_triggers_vote_on_spend_proposal(Alice, bank_id, spend_id, TRUE)
    \/ \E bank_id \in BankIds, tribute \in Tributes, applicant \in Applicants :
          block = 1 /\ member_proposes_member(Alice, bank_id, tribute, 1, applicant)
    \/ \E bank_id \in BankIds, proposal_id \in ProposalIds :
          block = 1 /\ member_triggers_vote_on_member_proposal(Alice, bank_id, proposal_id, TRUE)
    \/ \E vote_id \in VoteIds, outcome \in {"Approved", "Rejected"} :
          block = 1 /\ VoteDecided(vote_id, outcome)
    \/ Finalize
    \/ Return

\* every block is finalized and every call returns; the order in which a
\* sweep meets the proposals is the order of the hashed keys and no fairness
\* holds for it
LiveSpec == Init /\ [][LiveNext]_vars /\ WF_vars(Finalize) /\ WF_vars(Return)

\* ------------------------------------------------------------------ claims
SpendRank(s) == IF s = WaitingForApproval THEN 0 ELSE IF IsVoting(s) THEN 1 ELSE 2

\* C1, as claimed: the states a spend proposal goes through are a prefix of
\* WaitingForApproval, Voting(_), terminal: a proposal is created in
\* WaitingForApproval, stays stored, and every change of its state is a step to
\* the next stage.
C1_PrefixOrder ==
    [][/\ \A k \in DOMAIN SpendProps' \ DOMAIN SpendProps :
             SpendProps'[k].state = WaitingForApproval
       /\ \A k \in DOMAIN SpendProps :
             /\ k \in DOMAIN SpendProps'
             /\ SpendProps'[k].state # SpendProps[k].state =>
                   SpendRank(SpendProps'[k].state) = SpendRank(SpendProps[k].state) + 1
      ]_vars

\* C1, amended: a spend proposal is created in WaitingForApproval, stays
\* stored, and every change of its state moves strictly forward in the order
\* WaitingForApproval, Voting(_), terminal (Voting may be skipped by
\* sudo_approve); no state is revisited and a terminal state never changes.
C1_ForwardOnly ==
    [][/\ \A k \in DOMAIN SpendProps' \ DOMAIN SpendProps :
             SpendProps'[k].state = WaitingForApproval
       /\ \A k \in DOMAIN SpendProps :
             /\ k \in DOMAIN SpendProps'
             /\ SpendProps'[k].state # SpendProps[k].state =>
                   SpendRank(SpendProps'[k].state) > SpendRank(SpendProps[k].state)
      ]_vars

\* a sudo_approve that took a proposal to a terminal state though no vote was
\* ever opened
C1_Witness ==
    /\ ret.op = "member_sudo_approves_spend_proposal"
    /\ ret.res = Ok
    /\ votes = <<>>
    /\ IsTerminal(SpendProps[<<ret.args[2], ret.args[3]>>].state)

\* C2: a spend or membership proposal in ApprovedAndExecuted or
\* ApprovedButNotExecuted stays stored in that same state in every step.
C2_TerminalAbsorbing ==
    [][/\ \A k \in DOMAIN SpendProps :
             IsTerminal(SpendProps[k].state) =>
                 k \in DOMAIN SpendProps' /\ SpendProps'[k].state = SpendProps[k].state
       /\ \A k \in DOMAIN MemberProps :
             IsTerminal(MemberProps[k].state) =>
                 k \in DOMAIN MemberProps' /\ MemberProps'[k].state = MemberProps[k].state
      ]_vars

\* a poll of a spend proposal that is ApprovedButNotExecuted while its open
\* treasury could by now fund it
C2_Witness ==
    /\ ret.op = "poll_spend_proposal"
    /\ ret.res = Ok
    /\ ret.val = ApprovedButNotExecuted
    /\ is_bank(BankStores, ret.args[1])
    /\ bank_balance(balances, ret.args[1]) >=
          SpendProps[<<ret.args[1], ret.args[2]>>].amount + ExistentialDeposit

\* C3: no two open treasuries have the same organization, and the registrar
\* holds exactly the organizations of the open treasuries.
C3_OneBankPerOrg ==
    /\ \A a, b \in DOMAIN BankStores :
          BankStores[a].org = BankStores[b].org => a = b
    /\ OrgBankRegistrar = {BankStores[b].org : b \in DOMAIN BankStores}

\* two treasuries open at once, and a treasury opened for an organization
\* whose earlier treasury was closed
C3_Witness ==
    \/ Cardinality(DOMAIN BankStores) = 2
    \/ /\ BankIdNonce = 2
       /\ DOMAIN BankStores = {2}
       /\ ret.op = "summon_moloch"
       /\ ret.res = Ok

HasPolled(kind, k) ==
    \E i \in DOMAIN polled :
        polled[i][1] = kind /\ polled[i][2] = k[1] /\ polled[i][3] = k[2]

\* C4: after the finalize hook of a block that is a multiple of the spend
\* (membership) cadence, every stored spend (membership) proposal of an open
\* treasury has been polled and has its notification, whatever other
\* proposals are stored.
C4_SweepPollsAll ==
    ret.op = "on_finalize" =>
        /\ SpendPollDue(ret.val) =>
              \A k \in DOMAIN SpendProps :
                  is_bank(BankStores, k[1]) => HasPolled("SpendProposalPolled", k)
        /\ MemberPollDue(ret.val) =>
              \A k \in DOMAIN MemberProps :
                  is_bank(BankStores, k[1]) => HasPolled("MemberProposalPolled", k)

\* C5: a poll that leaves a membership proposal ApprovedButNotExecuted moved
\* no tribute and minted no shares; a poll that leaves it ApprovedAndExecuted
\* moved the tribute and minted the shares.
C5_AllOrNothing ==
    [][ret'.op = "poll_membership_proposal" /\ ret'.res = Ok =>
         LET k == <<ret'.args[1], ret'.args[2]>>
             p == MemberProps[k]
             org == BankStores[k[1]].org
         IN /\ (MemberProps'[k].state = ApprovedButNotExecuted
                  /\ p.state # ApprovedButNotExecuted) =>
                   UNCHANGED <<balances, shares, members>>
            /\ (MemberProps'[k].state = ApprovedAndExecuted
                  /\ p.state # ApprovedAndExecuted) =>
                   /\ bank_balance(balances', k[1]) =
                         bank_balance(balances, k[1]) + p.tribute
                   /\ shares'[org][p.applicant] =
                         shares[org][p.applicant] + p.shares_requested
      ]_vars

ValidationErrors ==
    {"LimitOfOneMolochPerOrg", "NotPermittedToOpenBankAccountForOrg",
     "CannotOpenBankAccountIfDepositIsBelowModuleMinimum",
     "CannotCloseBankThatDNE", "MustBeOrgSupervisorToCloseBankAccount",
     "BankMustExistToProposeFrom", "NotPermittedToProposeSpendForBankAccount",
     "CannotTriggerVoteIfBaseBankDNE", "NotPermittedToTriggerVoteForBankAccount",
     "CannotTriggerVoteForSpendIfSpendProposalDNE",
     "CannotTriggerVoteFromCurrentSpendProposalState",
     "CannotSudoApproveSpendProposalIfBaseBankDNE",
     "NotPermittedToSudoApproveForBankAccount",
     "CannotSudoApproveSpendProposalIfSpendProposalDNE",
     "CannotApproveAlreadyApprovedSpendProposal",
     "CannotPollProposalIfBaseBankDNE", "CannotPollProposalIfProposalDNE",
     "MustBeMemberToSponsorMembershipProposal",
     "CannotTriggerVoteForMemberIfMemberProposalDNE",
     "CannotTriggerVoteFromCurrentMemberProposalState"}

\* C6: a call that is rejected with a validation error changes nothing: the
\* treasury table, the registrar, the counter, the nonces, both proposal tables,
\* the balances, the org registry and the votes are as before the call.
C6_ValidationNoMutation ==
    [][ret'.res \in ValidationErrors => UNCHANGED <<storage, collab>>]_vars

\* calls rejected for a wrong proposal state, for a missing role, and for a
\* deposit below the minimum, with a treasury and a proposal in storage
C6_Witness ==
    /\ ret.res \in {"CannotTriggerVoteFromCurrentSpendProposalState",
                    "NotPermittedToSudoApproveForBankAccount",
                    "CannotOpenBankAccountIfDepositIsBelowModuleMinimum"}
    /\ BankStores # <<>>
    /\ SpendProps # <<>>

\* C7: open_treasury with a deposit below the minimum fails, with the
\* deposit-below-minimum error of open_bank_account, and the treasury table,
\* the registrar, the counter, the id nonce and every balance are unchanged.
C7_DepositBelowMinimum ==
    [][ret'.op = "summon_moloch" /\ ret'.args[3] < MinDeposit =>
         /\ ret'.res # Ok
         /\ open_bank_account(BankIdNonce, BankStores, TotalBankCount, balances,
                              ret'.args[1], ret'.args[2], ret'.args[3],
                              ret'.args[4]).res
               = "CannotOpenBankAccountIfDepositIsBelowModuleMinimum"
         /\ (~org_has_bank(OrgBankRegistrar, ret'.args[2])
               /\ is_member_of_group(members, ret'.args[2], ret'.args[1])) =>
                ret'.res = "CannotOpenBankAccountIfDepositIsBelowModuleMinimum"
         /\ UNCHANGED <<BankStores, OrgBankRegistrar, TotalBankCount,
                        BankIdNonce, balances>>
      ]_vars

\* an open_treasury rejected for its deposit
C7_Witness ==
    /\ ret.op = "summon_moloch"
    /\ ret.args[3] < MinDeposit
    /\ ret.res = "CannotOpenBankAccountIfDepositIsBelowModuleMinimum"

BanksOf(banks, org) == {b \in DOMAIN banks : banks[b].org = org}

\* C8: while an organization has an open treasury, open_treasury for it fails
\* with the one-per-organization error, changes nothing, and the treasury
\* table still holds exactly one treasury of the organization.
C8_SecondOpenFails ==
    [][ret'.op = "summon_moloch" /\ BanksOf(BankStores, ret'.args[2]) # {} =>
         /\ ret'.res = "LimitOfOneMolochPerOrg"
         /\ UNCHANGED <<storage, collab>>
         /\ Cardinality(BanksOf(BankStores', ret'.args[2])) = 1
      ]_vars

\* a second open_treasury for an organization, with a deposit that would do
C8_Witness ==
    /\ ret.op = "summon_moloch"
    /\ ret.res = "LimitOfOneMolochPerOrg"
    /\ ret.args[3] >= MinDeposit
    /\ is_member_of_group(members, ret.args[2], ret.args[1])

\* C9, as claimed: a successful open_treasury debits the opener by the deposit,
\* leaves the custodial account of the new treasury with exactly the deposit,
\* records the organization and the controller, adds one to the counter, and
\* the first treasury ever opened has id 1.
C9_OpenEffects ==
    [][ret'.op = "summon_moloch" /\ ret'.res = Ok =>
         LET opener == ret'.args[1]
             org == ret'.args[2]
             deposit == ret'.args[3]
             controller == ret'.args[4]
             id == ret'.val
         IN /\ balances'[opener] = balances[opener] - deposit
            /\ bank_balance(balances', id) = deposit
            /\ ~is_bank(BankStores, id)
            /\ BankStores' = Put(BankStores, id, NewBankState(id, org, controller))
            /\ TotalBankCount' = TotalBankCount + 1
            /\ opened = {} => id = 1
      ]_vars

\* C10: a poll of a spend proposal in Voting whose vote is Approved and whose
\* treasury can fund it moves exactly the amount from the custodial account to
\* the destination, stores and returns ApprovedAndExecuted; and whatever poll
\* returns is the state stored after the call.
C10_PollExecutes ==
    [][ret'.op = "poll_spend_proposal" /\ ret'.res = Ok =>
         LET k == <<ret'.args[1], ret'.args[2]>>
             p == SpendProps[k]
             acc == bank_account_id(k[1])
         IN /\ ret'.val = SpendProps'[k].state
            /\ (/\ IsVoting(p.state)
                /\ votes[p.state[2]] = "Approved"
                /\ balances[acc] >= p.amount + ExistentialDeposit) =>
                   /\ balances'[acc] = balances[acc] - p.amount
                   /\ balances'[p.dest] = balances[p.dest] + p.amount
                   /\ SpendProps'[k].state = ApprovedAndExecuted
                   /\ ret'.val = ApprovedAndExecuted
      ]_vars

\* a poll that executed an approved spend
C10_Witness ==
    /\ ret.op = "poll_spend_proposal"
    /\ ret.res = Ok
    /\ ret.val = ApprovedAndExecuted
    /\ votes # <<>>
    /\ votes[1] = "Approved"
    /\ balances[Bob] = 2 + SpendProps[<<ret.args[1], ret.args[2]>>].amount

\* the spend proposal a call names with bank id b and spend id i, before it
SpendApprovalReached(op, b, i) ==
    /\ is_bank(BankStores, b)
    /\ is_spend(SpendProps, b, i)
    /\ \/ /\ op = "member_sudo_approves_spend_proposal"
          /\ is_controller(BankStores[b], ret'.args[1])
          /\ sudo_approvable(SpendProps[<<b, i>>].state)
       \/ /\ op = "poll_spend_proposal"
          /\ IsVoting(SpendProps[<<b, i>>].state)
          /\ votes[SpendProps[<<b, i>>].state[2]] = "Approved"

\* C11: a sudo_approve whose authorization and state checks pass, and a poll
\* that finds an Approved vote, return success and leave the proposal
\* ApprovedAndExecuted when the transfer out of the custodial account
\* succeeded and ApprovedButNotExecuted when it failed; when it failed no
\* balance changed.
C11_ApprovalAlwaysLands ==
    [][\A b \in BankIds, i \in SpendIds :
         (/\ ret'.op \in {"member_sudo_approves_spend_proposal", "poll_spend_proposal"}
          /\ ret'.args = (IF ret'.op = "poll_spend_proposal"
                          THEN <<b, i>> ELSE <<ret'.args[1], b, i>>)
          /\ SpendApprovalReached(ret'.op, b, i)) =>
            LET p == SpendProps[<<b, i>>]
                acc == bank_account_id(b)
                funded == /\ balances[acc] >= p.amount + ExistentialDeposit
                          /\ balances[p.dest] + p.amount >= ExistentialDeposit
            IN /\ ret'.res = Ok
               /\ IF funded
                  THEN /\ SpendProps'[<<b, i>>].state = ApprovedAndExecuted
                       /\ balances'[acc] = balances[acc] - p.amount
                       /\ balances'[p.dest] = balances[p.dest] + p.amount
                  ELSE /\ SpendProps'[<<b, i>>].state = ApprovedButNotExecuted
                       /\ balances' = balances
      ]_vars

\* a sudo_approve that succeeded though the treasury could not pay
C11_Witness ==
    /\ ret.op = "member_sudo_approves_spend_proposal"
    /\ ret.res = Ok
    /\ SpendProps[<<ret.args[2], ret.args[3]>>].state = ApprovedButNotExecuted
    /\ bank_balance(balances, ret.args[2]) <
          SpendProps[<<ret.args[2], ret.args[3]>>].amount + ExistentialDeposit

\* C12: sudo_approve on a stored spend proposal of an open treasury fails with
\* the not-permitted error for a caller who is not the controller, and with
\* the already-approved error for the controller when the proposal is
\* terminal; in both cases no proposal and no balance changes.
C12_SudoRejected ==
    [][ret'.op = "member_sudo_approves_spend_proposal" =>
         LET caller == ret'.args[1]
             k == <<ret'.args[2], ret'.args[3]>>
         IN (is_bank(BankStores, k[1]) /\ k \in DOMAIN SpendProps) =>
              /\ ~is_controller(BankStores[k[1]], caller) =>
                    /\ ret'.res = "NotPermittedToSudoApproveForBankAccount"
                    /\ UNCHANGED <<SpendProps, balances>>
              /\ IsTerminal(SpendProps[k].state) =>
                    /\ ret'.res = IF is_controller(BankStores[k[1]], caller)
                                  THEN "CannotApproveAlreadyApprovedSpendProposal"
                                  ELSE "NotPermittedToSudoApproveForBankAccount"
                    /\ UNCHANGED <<SpendProps, balances>>
      ]_vars

\* the controller's sudo_approve of a terminal proposal, refused
C12_Witness ==
    /\ ret.op = "member_sudo_approves_spend_proposal"
    /\ ret.res = "CannotApproveAlreadyApprovedSpendProposal"
    /\ IsTerminal(SpendProps[<<ret.args[2], ret.args[3]>>].state)

TriggerOps ==
    {"member_triggers_vote_on_spend_proposal",
     "member_triggers_vote_on_member_proposal"}

\* C13: trigger_vote on a stored spend or membership proposal that is not in
\* WaitingForApproval fails, opens no vote and changes no proposal; for a
\* member of the organization of the open treasury the error is the
\* invalid-state error.
C13_TriggerOnlyFromWaiting ==
    [][ret'.op \in TriggerOps =>
         LET spend == ret'.op = "member_triggers_vote_on_spend_proposal"
             caller == ret'.args[1]
             k == <<ret'.args[2], ret'.args[3]>>
             props == IF spend THEN SpendProps ELSE MemberProps
         IN (k \in DOMAIN props /\ props[k].state # WaitingForApproval) =>
              /\ ret'.res # Ok
              /\ UNCHANGED <<votes, SpendProps, MemberProps>>
              /\ (is_bank(BankStores, k[1])
                    /\ is_member_of_group(members, BankStores[k[1]].org, caller)) =>
                   ret'.res = IF spend
                              THEN "CannotTriggerVoteFromCurrentSpendProposalState"
                              ELSE "CannotTriggerVoteFromCurrentMemberProposalState"
      ]_vars

\* a second trigger_vote on a membership proposal that is in Voting, refused
C13_Witness ==
    /\ ret.op = "member_triggers_vote_on_member_proposal"
    /\ ret.res = "CannotTriggerVoteFromCurrentMemberProposalState"
    /\ IsVoting(MemberProps[<<ret.args[2], ret.args[3]>>].state)

PollOps == {"poll_spend_proposal", "poll_membership_proposal"}
PolledProps(op) == IF op = "poll_spend_proposal" THEN SpendProps ELSE MemberProps

\* C14, as claimed: a poll of a stored spend or membership proposal that is
\* in a terminal state, whatever happened since it became terminal, returns
\* that state and changes nothing.
C14_PollIdempotentAlways ==
    [][ret'.op \in PollOps =>
         LET k == <<ret'.args[1], ret'.args[2]>>
             props == PolledProps(ret'.op)
         IN (k \in DOMAIN props /\ IsTerminal(props[k].state)) =>
              /\ ret'.res = Ok
              /\ ret'.val = props[k].state
              /\ UNCHANGED <<storage, collab>>
      ]_vars

\* C14, amended: a poll of a stored proposal that is in a terminal state
\* changes nothing; it returns that state while the treasury of the proposal
\* is open, and fails with the treasury-not-found error once the treasury
\* has been closed.
C14_PollIdempotentWhileOpen ==
    [][ret'.op \in PollOps =>
         LET k == <<ret'.args[1], ret'.args[2]>>
             props == PolledProps(ret'.op)
         IN (k \in DOMAIN props /\ IsTerminal(props[k].state)) =>
              /\ UNCHANGED <<storage, collab>>
              /\ IF is_bank(BankStores, k[1])
                 THEN ret'.res = Ok /\ ret'.val = props[k].state
                 ELSE ret'.res = "CannotPollProposalIfBaseBankDNE"
      ]_vars

\* a poll of a terminal spend proposal whose treasury has been closed
C14_Witness ==
    /\ ret.op = "poll_spend_proposal"
    /\ ret.res = "CannotPollProposalIfBaseBankDNE"
    /\ <<ret.args[1], ret.args[2]>> \in DOMAIN SpendProps
    /\ IsTerminal(SpendProps[<<ret.args[1], ret.args[2]>>].state)

Undecided(s) ==
    \/ s = WaitingForApproval
    \/ IsVoting(s) /\ votes[s[2]] # "Approved"

\* C15: a poll of a stored proposal of an open treasury that is in
\* WaitingForApproval, or in Voting(vote_id) with a vote that is pending or
\* rejected, returns the state it found and changes nothing; and a proposal
\* in Voting whose vote is rejected changes state only by a sudo_approve of
\* a spend proposal.
C15_PollLeavesUndecided ==
    [][/\ ret'.op \in PollOps =>
            LET k == <<ret'.args[1], ret'.args[2]>>
                props == PolledProps(ret'.op)
            IN (k \in DOMAIN props /\ Undecided(props[k].state)) =>
                 /\ UNCHANGED <<storage, collab>>
                 /\ is_bank(BankStores, k[1]) =>
                       ret'.res = Ok /\ ret'.val = props[k].state
       /\ \A k \in DOMAIN SpendProps :
            (/\ IsVoting(SpendProps[k].state)
             /\ votes[SpendProps[k].state[2]] = "Rejected"
             /\ SpendProps'[k].state # SpendProps[k].state) =>
                ret'.op = "member_sudo_approves_spend_proposal"
       /\ \A k \in DOMAIN MemberProps :
            (/\ IsVoting(MemberProps[k].state)
             /\ votes[MemberProps[k].state[2]] = "Rejected") =>
                MemberProps'[k].state = MemberProps[k].state
      ]_vars

\* a poll that found a rejected vote and returned Voting
C15_Witness ==
    /\ ret.op = "poll_spend_proposal"
    /\ ret.res = Ok
    /\ IsVoting(ret.val)
    /\ votes[ret.val[2]] = "Rejected"
    /\ bank_balance(balances, ret.args[1]) >=
          SpendProps[<<ret.args[1], ret.args[2]>>].amount + ExistentialDeposit

IsPolledEvent(e, kind) == e[1] = kind

\* C16: the finalize hook of a block that is not a multiple of the spend
\* cadence changes no spend proposal and emits no spend notification; of a
\* block that is not a multiple of the membership cadence, no membership
\* proposal, no share, no member and no membership notification; of a block
\* that is a multiple of neither, no balance.
C16_CadenceOnly ==
    [][ret'.op = "on_finalize" =>
         /\ block % SpendPollFrequency # 0 =>
               /\ SpendProps' = SpendProps
               /\ \A i \in DOMAIN polled' :
                     ~IsPolledEvent(polled'[i], "SpendProposalPolled")
         /\ block % MemberPollFrequency # 0 =>
               /\ UNCHANGED <<MemberProps, members, shares>>
               /\ \A i \in DOMAIN polled' :
                     ~IsPolledEvent(polled'[i], "MemberProposalPolled")
         /\ (block % SpendPollFrequency # 0 /\ block % MemberPollFrequency # 0) =>
               balances' = balances
      ]_vars

\* the hook of a block on the membership cadence only, which left an approved
\* and funded spend proposal in Voting
C16_Witness ==
    /\ ret.op = "on_finalize"
    /\ ret.val % MemberPollFrequency = 0
    /\ ret.val % SpendPollFrequency # 0
    /\ \E k \in DOMAIN SpendProps :
          /\ IsVoting(SpendProps[k].state)
          /\ votes[SpendProps[k].state[2]] = "Approved"
          /\ is_bank(BankStores, k[1])
          /\ bank_balance(balances, k[1]) >= SpendProps[k].amount + ExistentialDeposit

IdsUnder(props, bank) == {k[2] : k \in {q \in DOMAIN props : q[1] = bank}}

\* C17: the id a successful open_treasury, propose_spend or propose_membership
\* returns is not zero, is not in the store of its namespace before the call,
\* is greater than every id returned in that namespace before, and is the
\* nonce of the namespace after the call.
C17_FreshIds ==
    [][ret'.res = Ok =>
         /\ ret'.op = "summon_moloch" =>
               /\ ret'.val # 0
               /\ ~is_bank(BankStores, ret'.val)
               /\ \A i \in opened : ret'.val > i
               /\ BankIdNonce' = ret'.val
         /\ ret'.op = "member_proposes_spend" =>
               /\ ret'.val # 0
               /\ ~is_spend(SpendProps, ret'.args[2], ret'.val)
               /\ \A i \in IdsUnder(SpendProps, ret'.args[2]) : ret'.val > i
               /\ SpendNonceMap'[ret'.args[2]] = ret'.val
         /\ ret'.op = "member_proposes_member" =>
               /\ ret'.val # 0
               /\ ~is_proposal(MemberProps, ret'.args[2], ret'.val)
               /\ \A i \in IdsUnder(MemberProps, ret'.args[2]) : ret'.val > i
               /\ ProposalNonceMap'[ret'.args[2]] = ret'.val
      ]_vars

\* a treasury opened after treasury 1 was closed, under a new id
C17_Witness ==
    /\ ret.op = "summon_moloch"
    /\ ret.res = Ok
    /\ 1 \in opened
    /\ ~is_bank(BankStores, 1)
    /\ ret.val > 1

\* C18: propose_spend succeeds exactly when the treasury exists and the caller
\* is a member of its organization; it then stores, under the treasury id and
\* a new spend id, a proposal in WaitingForApproval with the amount and the
\* destination given, and the first proposal of a treasury has id 1; it fails
\* with the bank-must-exist error without the treasury and with the
\* not-permitted error for a caller who is no member.
C18_ProposeSpend ==
    [][ret'.op = "member_proposes_spend" =>
         LET caller == ret'.args[1]
             b == ret'.args[2]
             id == ret'.val
         IN /\ ~is_bank(BankStores, b) => ret'.res = "BankMustExistToProposeFrom"
            /\ (is_bank(BankStores, b)
                  /\ ~is_member_of_group(members, BankStores[b].org, caller)) =>
                   ret'.res = "NotPermittedToProposeSpendForBankAccount"
            /\ (is_bank(BankStores, b)
                  /\ is_member_of_group(members, BankStores[b].org, caller)) =>
                   /\ ret'.res = Ok
                   /\ <<b, id>> \notin DOMAIN SpendProps
                   /\ DOMAIN SpendProps' = DOMAIN SpendProps \cup {<<b, id>>}
                   /\ \A k \in DOMAIN SpendProps : SpendProps'[k] = SpendProps[k]
                   /\ SpendProps'[<<b, id>>].state = WaitingForApproval
                   /\ SpendProps'[<<b, id>>].amount = ret'.args[3]
                   /\ SpendProps'[<<b, id>>].dest = ret'.args[4]
                   /\ IdsUnder(SpendProps, b) = {} => id = 1
            /\ ret'.res # Ok => UNCHANGED <<storage, collab>>
      ]_vars

\* the first spend proposal of the second treasury
C18_Witness ==
    /\ ret.op = "member_proposes_spend"
    /\ ret.res = Ok
    /\ ret.args[2] = 2
    /\ ret.val = 1
    /\ SpendProps[<<2, 1>>].state = WaitingForApproval

\* C19: a successful trigger_vote opens exactly one vote, over the
\* organization of the treasury with equal weights and a support threshold
\* of all of it, stores Voting(vote_id) with the id of that vote and returns
\* the same id; when the vote service refuses to open the vote the proposal
\* stays in WaitingForApproval; a trigger_vote by a caller who is no member
\* of the organization fails and opens no vote.
C19_TriggerOpensOneVote ==
    [][ret'.op \in TriggerOps =>
         LET spend == ret'.op = "member_triggers_vote_on_spend_proposal"
             caller == ret'.args[1]
             k == <<ret'.args[2], ret'.args[3]>>
             props == IF spend THEN SpendProps ELSE MemberProps
             propsAfter == IF spend THEN SpendProps' ELSE MemberProps'
             id == ret'.val
         IN /\ ret'.res = Ok =>
                 /\ props[k].state = WaitingForApproval
                 /\ Len(votes') = Len(votes) + 1
                 /\ id = Len(votes')
                 /\ \A v \in DOMAIN votes : votes'[v] = votes[v]
                 /\ votes'[id] = "Voting"
                 /\ vote_requests'[id].rep = <<"Equal", BankStores[k[1]].org>>
                 /\ vote_requests'[id].support = <<"Permill", 1000000>>
                 /\ vote_requests'[id].turnout = None
                 /\ propsAfter[k].state = Voting(id)
            /\ ret'.res = "OpenVoteFailed" =>
                 /\ props[k].state = WaitingForApproval
                 /\ UNCHANGED <<storage, collab>>
            /\ (is_bank(BankStores, k[1])
                  /\ ~is_member_of_group(members, BankStores[k[1]].org, caller)) =>
                 /\ ret'.res = "NotPermittedToTriggerVoteForBankAccount"
                 /\ UNCHANGED <<storage, collab>>
            /\ ret'.res # Ok => votes' = votes
      ]_vars

\* a second vote, opened for a proposal of the treasury of organization 1
C19_Witness ==
    /\ ret.op = "member_triggers_vote_on_spend_proposal"
    /\ ret.res = Ok
    /\ ret.val = 2
    /\ SpendProps[<<ret.args[2], ret.args[3]>>].state = Voting(2)
    /\ vote_requests[2].rep = <<"Equal", 1>>

\* C20: close_treasury fails with the treasury-not-found error for an id
\* that is no treasury; for a treasury it fails with the not-authorized
\* error unless the closer is its controller or, when it has no controller,
\* the supervisor of its organization, who is then let through.
C20_CloseAuthorization ==
    [][ret'.op = "close_org_bank_account" =>
         LET closer == ret'.args[1]
             b == ret'.args[2]
         IN IF ~is_bank(BankStores, b)
            THEN ret'.res = "CannotCloseBankThatDNE"
            ELSE LET bank == BankStores[b]
                     authorized ==
                         \/ bank.controller = closer
                         \/ /\ bank.controller = None
                            /\ is_organization_supervisor(bank.org, closer)
                 IN (ret'.res = "MustBeOrgSupervisorToCloseBankAccount") <=> ~authorized
      ]_vars

\* C21: a successful close of treasury id leaves is_bank(id) false, the
\* counter of treasuries one lower and the organization without a treasury
\* slot; an open for an organization without a slot, by a member with a
\* sufficient deposit the opener can pay, succeeds, and the treasury it opens
\* has an id no earlier treasury had.
C21_CloseReleases ==
    [][/\ (ret'.op = "close_org_bank_account" /\ ret'.res = Ok) =>
            LET id == ret'.args[2] IN
            /\ is_bank(BankStores, id)
            /\ ~is_bank(BankStores', id)
            /\ TotalBankCount' = TotalBankCount - 1
            /\ BankStores[id].org \notin OrgBankRegistrar'
            /\ \A b \in DOMAIN BankStores' : BankStores'[b].org # BankStores[id].org
       /\ ret'.op = "summon_moloch" =>
            LET opener == ret'.args[1]
                org == ret'.args[2]
                deposit == ret'.args[3]
            IN (/\ org \notin OrgBankRegistrar
                /\ is_member_of_group(members, org, opener)
                /\ deposit >= MinDeposit
                /\ balances[opener] - deposit >= ExistentialDeposit) =>
                   /\ ret'.res = Ok
                   /\ ret'.val \notin opened
                   /\ is_bank(BankStores', ret'.val)
                   /\ BankStores'[ret'.val].org = org
      ]_vars

\* the organization of the closed first treasury has opened its second one
\* (without any proposal only Alice can have paid for an open, and she is a
\* member of organization 1 only)
C21_Witness ==
    /\ ret.op = "summon_moloch"
    /\ ret.res = Ok
    /\ ret.args[2] = 1
    /\ ret.val = 2
    /\ opened = {1, 2}
    /\ DOMAIN BankStores = {2}
    /\ TotalBankCount = 1
    /\ SpendProps = <<>>
    /\ MemberProps = <<>>

\* C22: no step deletes a proposal, not even the close of its treasury, and
\* no step changes the amount or the destination of a spend proposal or the
\* tribute, the requested shares or the applicant of a membership proposal:
\* only the state of a stored proposal changes.
C22_ProposalsRetained ==
    [][/\ \A k \in DOMAIN SpendProps :
            /\ k \in DOMAIN SpendProps'
            /\ SpendProps'[k].amount = SpendProps[k].amount
            /\ SpendProps'[k].dest = SpendProps[k].dest
       /\ \A k \in DOMAIN MemberProps :
            /\ k \in DOMAIN MemberProps'
            /\ MemberProps'[k].tribute = MemberProps[k].tribute
            /\ MemberProps'[k].shares_requested = MemberProps[k].shares_requested
            /\ MemberProps'[k].applicant = MemberProps[k].applicant
      ]_vars

\* a treasury has been closed and its executed spend proposal is still stored
C22_Witness ==
    /\ ret.op = "close_org_bank_account"
    /\ ret.res = Ok
    /\ \E k \in DOMAIN SpendProps :
          /\ k[1] = ret.args[2]
          /\ SpendProps[k].state = ApprovedAndExecuted

\* C23: propose_membership fails with the bank-must-exist error for an unknown
\* treasury and with the must-be-member error for a caller who is no member of
\* the organization of an existing treasury; otherwise it succeeds and stores,
\* under a proposal id the treasury has not used, a proposal in
\* WaitingForApproval with the tribute, the shares and the applicant given.
C23_ProposeMembership ==
    [][ret'.op = "member_proposes_member" =>
         LET caller == ret'.args[1]
             b == ret'.args[2]
             id == ret'.val
         IN /\ ~is_bank(BankStores, b) => ret'.res = "BankMustExistToProposeFrom"
            /\ (is_bank(BankStores, b)
                  /\ ~is_member_of_group(members, BankStores[b].org, caller)) =>
                   ret'.res = "MustBeMemberToSponsorMembershipProposal"
            /\ (is_bank(BankStores, b)
                  /\ is_member_of_group(members, BankStores[b].org, caller)) =>
                   /\ ret'.res = Ok
                   /\ <<b, id>> \notin DOMAIN MemberProps
                   /\ DOMAIN MemberProps' = DOMAIN MemberProps \cup {<<b, id>>}
                   /\ \A k \in DOMAIN MemberProps : MemberProps'[k] = MemberProps[k]
                   /\ MemberProps'[<<b, id>>].state = WaitingForApproval
                   /\ MemberProps'[<<b, id>>].tribute = ret'.args[3]
                   /\ MemberProps'[<<b, id>>].shares_requested = ret'.args[4]
                   /\ MemberProps'[<<b, id>>].applicant = ret'.args[5]
            /\ ret'.res # Ok => UNCHANGED <<storage, collab>>
      ]_vars

\* the second membership proposal of a treasury has been stored
C23_Witness ==
    /\ ret.op = "member_proposes_member"
    /\ ret.res = Ok
    /\ ret.val = 2
    /\ <<ret.args[2], 1>> \in DOMAIN MemberProps
    /\ MemberProps[<<ret.args[2], 2>>].state = WaitingForApproval

\* C24: a poll of a membership proposal that is Voting, whose vote is
\* Approved, whose applicant can pay the tribute and whose shares can be
\* issued, takes exactly the tribute from the applicant, gives exactly the
\* tribute to the custodial account, gives the applicant exactly the requested
\* shares in the organization of the treasury and leaves the proposal
\* ApprovedAndExecuted.
C24_MembershipExecutes ==
    [][ret'.op = "poll_membership_proposal" =>
         LET b == ret'.args[1]
             k == <<ret'.args[1], ret'.args[2]>>
         IN (/\ is_bank(BankStores, b)
             /\ k \in DOMAIN MemberProps
             /\ IsVoting(MemberProps[k].state)
             /\ get_vote_outcome(votes, MemberProps[k].state[2]).ok
             /\ get_vote_outcome(votes, MemberProps[k].state[2]).outcome = "Approved"
             /\ Transfer(balances, MemberProps[k].applicant, bank_account_id(b),
                         MemberProps[k].tribute).ok
             /\ Issue(members, shares, BankStores[b].org, MemberProps[k].applicant,
                      MemberProps[k].shares_requested).ok) =>
                LET p == MemberProps[k]
                    org == BankStores[b].org
                IN /\ ret'.res = Ok
                   /\ ret'.val = ApprovedAndExecuted
                   /\ MemberProps'[k].state = ApprovedAndExecuted
                   /\ balances'[p.applicant] = balances[p.applicant] - p.tribute
                   /\ bank_balance(balances', b) = bank_balance(balances, b) + p.tribute
                   /\ shares'[org][p.applicant] =
                          shares[org][p.applicant] + p.shares_requested
                   /\ \A a \in AllAccounts \ {p.applicant, bank_account_id(b)} :
                          balances'[a] = balances[a]
      ]_vars

\* Bob has paid his tribute and holds the shares he asked for in organization 1
C24_Witness ==
    /\ ret.op = "poll_membership_proposal"
    /\ ret.res = Ok
    /\ ret.val = ApprovedAndExecuted
    /\ is_bank(BankStores, ret.args[1])
    /\ BankStores[ret.args[1]].org = 1
    /\ shares[1][Bob] = MemberProps[<<ret.args[1], ret.args[2]>>].shares_requested
    /\ balances[Bob] = 1

ValueOps ==
    {"summon_moloch", "member_proposes_spend", "member_proposes_member",
     "member_triggers_vote_on_spend_proposal",
     "member_triggers_vote_on_member_proposal",
     "member_sudo_approves_spend_proposal", "poll_spend_proposal",
     "poll_membership_proposal", "on_finalize"}

\* C25: an open, a propose, a trigger, a sudo approval, a poll and a sweep
\* leave the sum of the balances of all accounts, custodial accounts included,
\* as it was: transfers move value and neither create nor destroy it.
C25_ValueConserved ==
    [][ret'.op \in ValueOps => TotalFunds(balances') = TotalFunds(balances)]_vars

\* a sweep has executed a spend: value has reached Bob from a custodial account
C25_Witness ==
    /\ ret.op = "on_finalize"
    /\ \E i \in DOMAIN polled :
          /\ polled[i][1] = "SpendProposalPolled"
          /\ polled[i][4] = ApprovedAndExecuted
    /\ balances[Bob] > 2

\* C26: in every reachable state the custodial account of every open treasury
\* holds at least the minimum deposit.
C26_MinDepositKept ==
    \A b \in DOMAIN BankStores : bank_balance(balances, b) >= MinDeposit

\* C27: split(t, a) returns two tokens of the polarity of t whose magnitudes
\* sum to the magnitude of t, the first of magnitude min(a, t.peek()) and the
\* second the remainder; merge(x, y) returns one token of magnitude
\* x.peek() + y.peek(); peek returns the magnitude and leaves the token as it
\* was.
C27_SplitMergePeek ==
    /\ ret.op = "split" =>
          LET t == ret.args[1]
              a == ret.args[2]
              first == ret.val[1]
              second == ret.val[2]
          IN /\ Len(ret.val) = 2
             /\ first.pol = t.pol
             /\ second.pol = t.pol
             /\ first.mag + second.mag = t.mag
             /\ first.mag <= a
             /\ first.mag = (IF a < t.mag THEN a ELSE t.mag)
             /\ second.mag = t.mag - first.mag
             /\ second.mag >= 0
    /\ ret.op = "merge" =>
          /\ ret.val.mag = ret.args[1].mag + ret.args[2].mag
          /\ ret.val.pol = ret.args[1].pol
    /\ ret.op = "peek" =>
          /\ ret.val.value = ret.args[1].mag
          /\ ret.val.tok = ret.args[1]

\* a split that asks for more than the token holds: the first part is the
\* whole token and the remainder is zero
C27_Witness ==
    /\ ret.op = "split"
    /\ ret.args[1].mag > 0
    /\ ret.args[2] > ret.args[1].mag
    /\ ret.val[1].mag = ret.args[1].mag
    /\ ret.val[2].mag = 0

\* C28: p.offset(n) of a token p and a token n of the opposite polarity
\* returns exactly one token, of magnitude |p.peek() - n.peek()|: Ok with the
\* polarity of p when the magnitude of p is strictly greater, otherwise Err
\* with the polarity of n, which is a zero token when the magnitudes are equal.
C28_Offset ==
    ret.op = "offset" =>
        LET p == ret.args[1]
            n == ret.args[2]
            r == ret.val
        IN /\ r.mag = (IF p.mag > n.mag THEN p.mag - n.mag ELSE n.mag - p.mag)
           /\ p.mag > n.mag => (ret.res = Ok /\ r.pol = p.pol)
           /\ p.mag <= n.mag => (ret.res = "Err" /\ r.pol = n.pol)
           /\ p.mag = n.mag => r = zero(n.pol)

\* a positive token offset by a negative token of the same magnitude
C28_Witness ==
    /\ ret.op = "offset"
    /\ ret.args[1].pol = "Positive"
    /\ ret.args[1].mag > 0
    /\ ret.args[1].mag = ret.args[2].mag
    /\ ret.res = "Err"
    /\ ret.val = zero("Negative")

SignedValue(a) == IF a.sign = "Positive" THEN a.tok.mag ELSE 0 - a.tok.mag

\* C29: with Positive(m) read as +m and Negative(m) as -m, the signed value of
\* merge(a, b) is the sum of the signed values of a and b for all four
\* combinations of polarities; for different polarities and magnitudes the
\* result has the polarity of the larger magnitude; merge(a, b) and
\* merge(b, a) have the same signed value; opposite tokens of equal magnitude
\* merge into a token of magnitude zero.
C29_SignedMerge ==
    ret.op = "SignedImbalance::merge" =>
        LET a == ret.args[1]
            b == ret.args[2]
            m == ret.val.fwd
        IN /\ SignedValue(m) = SignedValue(a) + SignedValue(b)
           /\ m.tok.pol = m.sign
           /\ m.tok.mag >= 0
           /\ (a.sign # b.sign /\ a.tok.mag > b.tok.mag) => m.sign = a.sign
           /\ (a.sign # b.sign /\ a.tok.mag < b.tok.mag) => m.sign = b.sign
           /\ SignedValue(ret.val.bwd) = SignedValue(m)
           /\ (a.sign # b.sign /\ a.tok.mag = b.tok.mag) => m.tok.mag = 0

\* a negative token merged with a larger positive one, the order the code
\* swaps before it offsets
C29_Witness ==
    /\ ret.op = "SignedImbalance::merge"
    /\ ret.args[1].sign = "Negative"
    /\ ret.args[2].sign = "Positive"
    /\ ret.args[1].tok.mag > 0
    /\ ret.args[2].tok.mag > ret.args[1].tok.mag
    /\ ret.val.fwd = Positive([pol |-> "Positive",
                               mag |-> ret.args[2].tok.mag - ret.args[1].tok.mag])

SpendApproved(k) ==
    /\ block > 1
    /\ is_bank(BankStores, k[1])
    /\ k \in DOMAIN SpendProps
    /\ IsVoting(SpendProps[k].state)
    /\ get_vote_outcome(votes, SpendProps[k].state[2]).ok
    /\ get_vote_outcome(votes, SpendProps[k].state[2]).outcome = "Approved"
MemberApproved(k) ==
    /\ block > 1
    /\ is_bank(BankStores, k[1])
    /\ k \in DOMAIN MemberProps
    /\ IsVoting(MemberProps[k].state)
    /\ get_vote_outcome(votes, MemberProps[k].state[2]).ok
    /\ get_vote_outcome(votes, MemberProps[k].state[2]).outcome = "Approved"

\* C30: once the external commands have stopped and blocks go on, a spend or
\* membership proposal of an open treasury that is Voting with an Approved
\* vote eventually is ApprovedAndExecuted or ApprovedButNotExecuted, whatever
\* other proposals and closed treasuries are in storage.
C30_PollerLiveness ==
    /\ \A k \in BankIds \X SpendIds :
          SpendApproved(k) ~> (k \in DOMAIN SpendProps /\ IsTerminal(SpendProps[k].state))
    /\ \A k \in BankIds \X ProposalIds :
          MemberApproved(k) ~> (k \in DOMAIN MemberProps /\ IsTerminal(MemberProps[k].state))

SpendOps ==
    {"member_proposes_spend", "member_triggers_vote_on_spend_proposal",
     "member_sudo_approves_spend_proposal", "poll_spend_proposal",
     "on_finalize", "vote"}

\* C31: a spend proposal pays out at most once. A proposal in a terminal state
\* keeps it, and in every step of a trigger, a sudo approval, a poll, a sweep
\* or a vote decision (one that moves no tribute) each custodial account loses
\* exactly the amounts of its proposals that become ApprovedAndExecuted in
\* that step and each user gains exactly the amounts of the proposals executed
\* for that user: a proposal is paid when it becomes ApprovedAndExecuted and
\* at no other time.
C31_PaysAtMostOnce ==
    [][/\ \A k \in DOMAIN SpendProps :
            IsTerminal(SpendProps[k].state) =>
                (k \in DOMAIN SpendProps' /\ SpendProps'[k].state = SpendProps[k].state)
       /\ (ret'.op \in SpendOps /\ MemberProps' = MemberProps) =>
            LET ex == {k \in DOMAIN SpendProps :
                          /\ SpendProps[k].state # ApprovedAndExecuted
                          /\ SpendProps'[k].state = ApprovedAndExecuted}
                amt == [k \in ex |-> SpendProps[k].amount]
            IN /\ \A b \in BankIds :
                     bank_balance(balances, b) - bank_balance(balances', b) =
                         SumOver(amt, {k \in ex : k[1] = b})
               /\ \A a \in Users :
                     balances'[a] - balances[a] =
                         SumOver(amt, {k \in ex : SpendProps[k].dest = a})
      ]_vars

\* the only vote there is has been decided Approved after the only proposal
\* there is was sudo-approved while the vote was open: Bob has been paid once
C31_Witness ==
    /\ ret.op = "vote"
    /\ ret.args[2] = "Approved"
    /\ Len(votes) = 1
    /\ DOMAIN SpendProps = {<<1, 1>>}
    /\ MemberProps = <<>>
    /\ SpendProps[<<1, 1>>].state = ApprovedAndExecuted
    /\ balances[Bob] = 2 + SpendProps[<<1, 1>>].amount

\* C32: a spend proposal becomes ApprovedAndExecuted or ApprovedButNotExecuted
\* only in a sudo approval of it by the controller of its treasury or in a
\* poll or sweep that finds it Voting with an Approved vote; a membership
\* proposal becomes terminal only in a poll or sweep that finds it Voting
\* with an Approved vote; and outside a close the custodial account of an
\* open treasury loses funds only in a step that executes one of its spend
\* proposals.
C32_NoSpendWithoutApproval ==
    [][/\ \A k \in DOMAIN SpendProps :
            (~IsTerminal(SpendProps[k].state) /\ IsTerminal(SpendProps'[k].state)) =>
               \/ /\ ret'.op = "member_sudo_approves_spend_proposal"
                  /\ <<ret'.args[2], ret'.args[3]>> = k
                  /\ is_bank(BankStores, k[1])
                  /\ is_controller(BankStores[k[1]], ret'.args[1])
               \/ /\ ret'.op \in {"poll_spend_proposal", "on_finalize"}
                  /\ IsVoting(SpendProps[k].state)
                  /\ votes[SpendProps[k].state[2]] = "Approved"
       /\ \A k \in DOMAIN MemberProps :
            (~IsTerminal(MemberProps[k].state) /\ IsTerminal(MemberProps'[k].state)) =>
               /\ ret'.op \in {"poll_membership_proposal", "on_finalize"}
               /\ IsVoting(MemberProps[k].state)
               /\ votes[MemberProps[k].state[2]] = "Approved"
       /\ \A b \in DOMAIN BankStores :
            (ret'.op # "close_org_bank_account"
               /\ bank_balance(balances', b) < bank_balance(balances, b)) =>
               \E k \in DOMAIN SpendProps :
                  /\ k[1] = b
                  /\ ~IsTerminal(SpendProps[k].state)
                  /\ SpendProps'[k].state = ApprovedAndExecuted
      ]_vars

\* the controller has sudo-approved a proposal no vote was ever opened for
C32_Witness ==
    /\ ret.op = "member_sudo_approves_spend_proposal"
    /\ ret.res = Ok
    /\ votes = <<>>
    /\ is_controller(BankStores[ret.args[2]], ret.args[1])
    /\ SpendProps[<<ret.args[2], ret.args[3]>>].state = ApprovedAndExecuted

\* C33: an open that passes the deposit check and the one-per-organization
\* check and fails in the transfer of the deposit leaves everything as it
\* was, the treasury id nonce included, so that the next successful open gets
\* the id it would have got without the failed call.
C33_FailedOpenLeavesNothing ==
    [][/\ (ret'.op = "summon_moloch" /\ ret'.res = "TransferFailed") =>
             UNCHANGED <<storage, collab>>
       /\ (ret'.op = "summon_moloch" /\ ret'.res = Ok) =>
             ret'.val = Cardinality(opened) + 1
      ]_vars

\* C34: the proposals of a closed treasury are frozen. A treasury that was
\* opened and is no longer in the table never is in it again, no step changes
\* a spend or membership proposal stored under it, and no step moves the
\* balance of its custodial account, whatever treasuries are opened later.
C34_ClosedIsFrozen ==
    [][\A t \in opened :
          ~is_bank(BankStores, t) =>
             /\ ~is_bank(BankStores', t)
             /\ \A k \in DOMAIN SpendProps :
                   k[1] = t => (k \in DOMAIN SpendProps' /\ SpendProps'[k] = SpendProps[k])
             /\ \A k \in DOMAIN MemberProps :
                   k[1] = t => (k \in DOMAIN MemberProps' /\ MemberProps'[k] = MemberProps[k])
             /\ DOMAIN SpendProps' \ DOMAIN SpendProps \subseteq
                   {k \in DOMAIN SpendProps' : k[1] # t}
             /\ bank_balance(balances', t) = bank_balance(balances, t)
      ]_vars

\* a sweep has run over the Voting proposal of the closed first treasury,
\* whose vote is Approved, after the organization opened its second treasury
C34_Witness ==
    /\ ret.op = "on_finalize"
    /\ SpendPollDue(ret.args[1])
    /\ ~is_bank(BankStores, 1)
    /\ is_bank(BankStores, 2)
    /\ <<1, 1>> \in DOMAIN SpendProps
    /\ IsVoting(SpendProps[<<1, 1>>].state)
    /\ votes[SpendProps[<<1, 1>>].state[2]] = "Approved"

\* C35: in every reachable state the treasury counter is the number of
\* entries of the treasury table.
C35_CounterIsTableSize ==
    TotalBankCount = Cardinality(DOMAIN BankStores)

\* both treasuries have been opened and closed again: the counter is back at 0
C35_Witness ==
    /\ opened = {1, 2}
    /\ BankStores = <<>>
    /\ TotalBankCount = 0
    /\ ret.op = "close_org_bank_account"
    /\ ret.res = Ok

\* C36: a close whose distribution of the remaining balance fails is an error
\* and leaves the treasury open: its registry entry, the treasury counter and
\* the registrar slot of its organization are as they were.
C36_FailedDistributionKeepsOpen ==
    [][(ret'.op = "close_org_bank_account" /\ ret'.res = "DonateFailed") =>
          LET id == ret'.args[2] IN
          /\ is_bank(BankStores, id)
          /\ is_controller(BankStores[id], ret'.args[1])
          /\ is_bank(BankStores', id)
          /\ BankStores' = BankStores
          /\ TotalBankCount' = TotalBankCount
          /\ OrgBankRegistrar' = OrgBankRegistrar
          /\ BankStores[id].org \in OrgBankRegistrar'
      ]_vars

\* the controller's close has failed in the distribution and the treasury,
\* which holds a spend proposal, is still open
C36_Witness ==
    /\ ret.op = "close_org_bank_account"
    /\ ret.res = "DonateFailed"
    /\ is_bank(BankStores, ret.args[2])
    /\ TotalBankCount = 1
    /\ \E k \in DOMAIN SpendProps : k[1] = ret.args[2]

ApprovedVoting(props, k) ==
    /\ k \in DOMAIN props
    /\ IsVoting(props[k].state)
    /\ props[k].state[2] \in DOMAIN votes
    /\ votes[props[k].state[2]] = "Approved"

\* C37: when one sweep polls two spend proposals of one open treasury that
\* are both Voting with Approved votes, and the custodial balance can pay
\* either of them alone but not both, then after the sweep exactly one of them
\* is ApprovedAndExecuted and the other ApprovedButNotExecuted, and (no tribute
\* coming in) the custodial account has lost exactly the amount of the
\* executed one.
C37_SweepFundsOne ==
    [][ret'.op = "on_finalize" =>
         \A k1 \in DOMAIN SpendProps, k2 \in DOMAIN SpendProps :
            LET b == k1[1]
                a1 == SpendProps[k1].amount
                a2 == SpendProps[k2].amount
            IN (/\ k1 # k2
                /\ k2[1] = b
                /\ is_bank(BankStores, b)
                /\ ApprovedVoting(SpendProps, k1)
                /\ ApprovedVoting(SpendProps, k2)
                /\ HasPolled("SpendProposalPolled", k1)'
                /\ HasPolled("SpendProposalPolled", k2)'
                /\ bank_balance(balances, b) - a1 >= ExistentialDeposit
                /\ bank_balance(balances, b) - a2 >= ExistentialDeposit
                /\ bank_balance(balances, b) - a1 - a2 < ExistentialDeposit) =>
                   /\ {SpendProps'[k1].state, SpendProps'[k2].state} =
                          {ApprovedAndExecuted, ApprovedButNotExecuted}
                   /\ MemberProps' = MemberProps =>
                         bank_balance(balances', b) =
                            bank_balance(balances, b) -
                               (IF SpendProps'[k1].state = ApprovedAndExecuted
                                THEN a1 ELSE a2)
      ]_vars

\* a sweep has polled both approved proposals of a treasury that could pay
\* only one: two events, one for each outcome
C37_Witness ==
    /\ ret.op = "on_finalize"
    /\ Len(polled) = 2
    /\ polled[1][2] = polled[2][2]
    /\ is_bank(BankStores, polled[1][2])
    /\ {polled[1][4], polled[2][4]} = {ApprovedAndExecuted, ApprovedButNotExecuted}
    /\ polled[1][1] = "SpendProposalPolled"
    /\ polled[2][1] = "SpendProposalPolled"
    /\ Len(votes) = 2
    /\ bank_balance(balances, polled[1][2]) = ExistentialDeposit

\* C38: an open by an opener who is no member of the organization fails with
\* the not-permitted error, also when the deposit is sufficient and the
\* organization has no treasury, and it creates no treasury, moves no funds
\* and does not take the slot of the organization; a successful open is by a
\* member.
C38_OpenerMustBeMember ==
    [][ret'.op = "summon_moloch" =>
         LET opener == ret'.args[1]
             org == ret'.args[2]
         IN /\ (~org_has_bank(OrgBankRegistrar, org)
                  /\ ~is_member_of_group(members, org, opener)) =>
                   /\ ret'.res = "NotPermittedToOpenBankAccountForOrg"
                   /\ UNCHANGED <<storage, collab>>
            /\ ret'.res = Ok => is_member_of_group(members, org, opener)
      ]_vars

\* an account with enough funds that is no member has been refused the
\* treasury of an organization that has none
C38_Witness ==
    /\ ret.op = "summon_moloch"
    /\ ret.res = "NotPermittedToOpenBankAccountForOrg"
    /\ ret.args[3] >= MinDeposit
    /\ balances[ret.args[1]] - ret.args[3] >= ExistentialDeposit
    /\ ret.args[2] \notin OrgBankRegistrar

\* C39: a sudo approval or an approved poll of a spend whose amount is more
\* than the custodial balance, or would leave the custodial account below the
\* existential deposit, lands the proposal in ApprovedButNotExecuted and
\* changes no balance; and no step of the spend machine takes the custodial
\* account of an open treasury from at or above the existential deposit to
\* below it.
C39_KeepAliveSpend ==
    [][/\ ret'.op \in {"member_sudo_approves_spend_proposal", "poll_spend_proposal"} =>
            LET b == ret'.args[IF ret'.op = "poll_spend_proposal" THEN 1 ELSE 2]
                k == <<b, ret'.args[IF ret'.op = "poll_spend_proposal" THEN 2 ELSE 3]>>
            IN (/\ is_bank(BankStores, b)
                /\ k \in DOMAIN SpendProps
                /\ \/ /\ ret'.op = "poll_spend_proposal"
                      /\ ApprovedVoting(SpendProps, k)
                   \/ /\ ret'.op = "member_sudo_approves_spend_proposal"
                      /\ is_controller(BankStores[b], ret'.args[1])
                      /\ ~IsTerminal(SpendProps[k].state)
                /\ bank_balance(balances, b) - SpendProps[k].amount < ExistentialDeposit) =>
                   /\ ret'.res = Ok
                   /\ SpendProps'[k].state = ApprovedButNotExecuted
                   /\ balances' = balances
       /\ ret'.op \in SpendOps =>
            \A b \in DOMAIN BankStores :
               bank_balance(balances, b) >= ExistentialDeposit =>
                  bank_balance(balances', b) >= ExistentialDeposit
      ]_vars

\* a spend of the whole custodial balance has been approved and not executed
C39_Witness ==
    /\ ret.op = "member_sudo_approves_spend_proposal"
    /\ ret.res = Ok
    /\ SpendProps[<<ret.args[2], ret.args[3]>>].state = ApprovedButNotExecuted
    /\ SpendProps[<<ret.args[2], ret.args[3]>>].amount = bank_balance(balances, ret.args[2])

\* C40: the id namespaces are independent. A successful propose_spend on
\* treasury A leaves the treasury nonce, every membership-proposal nonce and
\* the spend nonce of every other treasury as they were, and the k-th one on A
\* gets spend id k; likewise for propose_membership; and a successful open
\* leaves every spend nonce and every membership-proposal nonce as they were.
C40_IndependentNamespaces ==
    [][ret'.res = Ok =>
         /\ ret'.op = "member_proposes_spend" =>
               LET A == ret'.args[2] IN
               /\ BankIdNonce' = BankIdNonce
               /\ ProposalNonceMap' = ProposalNonceMap
               /\ \A B \in BankIds \ {A} :
                     NonceGet(SpendNonceMap', B) = NonceGet(SpendNonceMap, B)
               /\ ret'.val = Cardinality(IdsUnder(SpendProps, A)) + 1
         /\ ret'.op = "member_proposes_member" =>
               LET A == ret'.args[2] IN
               /\ BankIdNonce' = BankIdNonce
               /\ SpendNonceMap' = SpendNonceMap
               /\ \A B \in BankIds \ {A} :
                     NonceGet(ProposalNonceMap', B) = NonceGet(ProposalNonceMap, B)
               /\ ret'.val = Cardinality(IdsUnder(MemberProps, A)) + 1
         /\ ret'.op = "summon_moloch" =>
               /\ SpendNonceMap' = SpendNonceMap
               /\ ProposalNonceMap' = ProposalNonceMap
      ]_vars

\* the first spend proposal of the second treasury has id 1 although the
\* first treasury has allocated a spend id and the second a membership id
C40_Witness ==
    /\ ret.op = "member_proposes_spend"
    /\ ret.res = Ok
    /\ ret.args[2] = 2
    /\ ret.val = 1
    /\ NonceGet(SpendNonceMap, 1) + NonceGet(ProposalNonceMap, 1)
          + NonceGet(ProposalNonceMap, 2) >= 1

====
